---- MODULE Spec2Model ----
(***************************************************************************)
(* Window-geometry persistence of matplotlib-window-tracker                *)
(* (src/src/matplotlib_window_tracker/geometry_cache.py).                  *)
(*                                                                         *)
(* Three specifications share the definitions of the cache functions:      *)
(*   SpecStore  the in-memory cache object under _coerce_cache,            *)
(*              _set_entry and _get_entry;                                 *)
(*   SpecFile   the cache file under _upsert_entry;                        *)
(*   Spec       one window manager, one registration made by               *)
(*              track_position_size, its _on_end_event handler and the     *)
(*              WindowTracker handle.                                      *)
(***************************************************************************)
EXTENDS Integers, Sequences, FiniteSets, TLC

VARIABLES
    cache,          \* SpecStore: the in-memory cache object (a Python dict)
    call,           \* record of the call that ran last (all specifications)
    disk,           \* the cache file: absent, or a text
    now,            \* the clock read by _utc_now_iso
    mgr,            \* the window manager (toolkit side)
    tracking,       \* "unregistered" | "absent" (track returned None) |
                    \* "handle" | "raised" (an exception left track)
    last_saved_fp,  \* the closure variable of track_position_size
    tracker,        \* the WindowTracker handle (its _cids and _last_saved_fp)
    procs           \* SpecRace: the processes inside _upsert_entry, each with
                    \* its position, its loaded cache and its temporary file

vars == <<cache, call, disk, now, mgr, tracking, last_saved_fp, tracker, procs>>

\* no process is inside _upsert_entry
NoProcs == <<>>

(***************************************************************************)
(* Python values.  Every value is a record tagged by its type in field t;  *)
(* a dict carries a function from its (string) keys to values.             *)
(***************************************************************************)
None == [t |-> "none"]
PyStr(s) == [t |-> "str", v |-> s]
PyInt(i) == [t |-> "int", v |-> i]
PyList(s) == [t |-> "list", v |-> s]
PyTuple(s) == [t |-> "tuple", v |-> s]
PyDict(f) == [t |-> "dict", v |-> f]
\* an ISO-8601 timestamp string, the one _utc_now_iso returns at instant n
PyTime(n) == [t |-> "time", v |-> n]
\* an object json cannot serialize (an opaque toolkit value)
PyObj == [t |-> "obj"]

EmptyMap == [k \in {} |-> None]

isinstance_dict(x) == x.t = "dict"
isinstance_str(x) == x.t = "str"

\* dict.get(key): the value, or None when the key is absent
dict_get(d, key) == IF key \in DOMAIN d.v THEN d.v[key] ELSE None

\* d[key] = value on a copy of d
dict_set(d, key, value) ==
    PyDict([k \in (DOMAIN d.v) \cup {key} |-> IF k = key THEN value ELSE d.v[k]])

\* dict.setdefault(key, default), as the dict after the call
dict_setdefault(d, key, default) ==
    IF key \in DOMAIN d.v THEN d ELSE dict_set(d, key, default)

\* not x, for a tag or machine id that is a string
is_empty_str(x) == x.v = ""

_CACHE_VERSION == 1

\* a plausible slip: the version key left out of a new cache
new_cache_without_version ==
    PyDict([machines |-> PyDict(EmptyMap), entries |-> PyDict(EmptyMap)])

_new_cache ==
    PyDict([version |-> PyInt(_CACHE_VERSION),
            machines |-> PyDict(EmptyMap),
            entries |-> PyDict(EmptyMap)])

\* a plausible slip: each part is recovered on its own, a malformed part
\* replaced by its default
coerce_recovers_parts(data) ==
    IF ~isinstance_dict(data) THEN _new_cache
    ELSE IF dict_get(data, "version") # PyInt(_CACHE_VERSION) THEN _new_cache
    ELSE PyDict([version |-> PyInt(_CACHE_VERSION),
                 machines |-> IF isinstance_dict(dict_get(data, "machines"))
                              THEN dict_get(data, "machines")
                              ELSE PyDict(EmptyMap),
                 entries |-> IF isinstance_dict(dict_get(data, "entries"))
                             THEN dict_get(data, "entries")
                             ELSE PyDict(EmptyMap)])

\* a plausible slip: the recognised keys are overlaid on the input mapping
\* instead of being copied into a fresh one, so unknown keys survive
coerce_keeps_extra_keys(data) ==
    IF ~isinstance_dict(data) THEN _new_cache
    ELSE IF dict_get(data, "version") # PyInt(_CACHE_VERSION) THEN _new_cache
    ELSE IF ~isinstance_dict(dict_get(data, "machines"))
            \/ ~isinstance_dict(dict_get(data, "entries")) THEN _new_cache
    ELSE data

_coerce_cache(data) ==
    IF ~isinstance_dict(data) THEN _new_cache
    ELSE IF dict_get(data, "version") # PyInt(_CACHE_VERSION) THEN _new_cache
    ELSE IF ~isinstance_dict(dict_get(data, "machines"))
            \/ ~isinstance_dict(dict_get(data, "entries")) THEN _new_cache
    ELSE PyDict([version |-> PyInt(_CACHE_VERSION),
                 machines |-> dict_get(data, "machines"),
                 entries |-> dict_get(data, "entries")])

\* a plausible slip: an assignment in place of dict.setdefault, which
\* replaces the record of a machine already known
ensure_machine_record_overwrites(c, machine_id, hostname) ==
    LET c1 == dict_setdefault(c, "machines", PyDict(EmptyMap))
        machines == c1.v["machines"]
    IN  IF ~isinstance_dict(machines) THEN c1
        ELSE dict_set(c1, "machines",
                 dict_set(machines, machine_id.v,
                     PyDict([hostname |-> PyStr(hostname)])))

\* a plausible slip: dict.get in place of dict.setdefault, which inserts nothing
ensure_machine_record_uses_get(c, machine_id, hostname) ==
    dict_setdefault(c, "machines", PyDict(EmptyMap))

\* machine_id is a string here; hostname is what _hostname() returns now
_ensure_machine_record(c, machine_id, hostname) ==
    LET c1 == dict_setdefault(c, "machines", PyDict(EmptyMap))
        machines == c1.v["machines"]
    IN  IF ~isinstance_dict(machines) THEN c1
        ELSE dict_set(c1, "machines",
                 dict_setdefault(machines, machine_id.v,
                     PyDict([hostname |-> PyStr(hostname)])))

_get_entry(c, tag, machine_id) ==
    IF ~isinstance_str(tag) \/ is_empty_str(tag) THEN None
    ELSE LET entries == dict_get(c, "entries")
         IN  IF ~isinstance_dict(entries) THEN None
             ELSE LET per_tag == dict_get(entries, tag.v)
                  IN  IF ~isinstance_dict(per_tag) THEN None
                      ELSE LET per_machine == dict_get(per_tag, machine_id.v)
                           IN  IF ~isinstance_dict(per_machine) THEN None
                               ELSE per_machine

\* a plausible slip: the call of _ensure_machine_record left out
set_entry_without_machine_record(c, tag, machine_id, entry, hostname) ==
    IF ~isinstance_str(tag) \/ is_empty_str(tag) THEN c
    ELSE IF ~isinstance_dict(entry) THEN c
    ELSE LET c2 == dict_setdefault(c, "entries", PyDict(EmptyMap))
             entries == c2.v["entries"]
         IN  IF ~isinstance_dict(entries) THEN c2
             ELSE LET e2 == dict_setdefault(entries, tag.v, PyDict(EmptyMap))
                      per_tag == e2.v[tag.v]
                  IN  IF ~isinstance_dict(per_tag) THEN dict_set(c2, "entries", e2)
                      ELSE dict_set(c2, "entries",
                               dict_set(e2, tag.v,
                                   dict_set(per_tag, machine_id.v, entry)))

\* a plausible slip: "not tag" left out of the first check of _set_entry
set_entry_accepts_empty_tag(c, tag, machine_id, entry, hostname) ==
    IF ~isinstance_str(tag) THEN c
    ELSE IF ~isinstance_dict(entry) THEN c
    ELSE LET c1 == _ensure_machine_record(c, machine_id, hostname)
             c2 == dict_setdefault(c1, "entries", PyDict(EmptyMap))
             entries == c2.v["entries"]
         IN  IF ~isinstance_dict(entries) THEN c2
             ELSE LET e2 == dict_setdefault(entries, tag.v, PyDict(EmptyMap))
                      per_tag == e2.v[tag.v]
                  IN  IF ~isinstance_dict(per_tag) THEN dict_set(c2, "entries", e2)
                      ELSE dict_set(c2, "entries",
                               dict_set(e2, tag.v,
                                   dict_set(per_tag, machine_id.v, entry)))

\* a plausible slip: the entries mapping is rebuilt around the one tag
set_entry_rebuilds_entries(c, tag, machine_id, entry, hostname) ==
    IF ~isinstance_str(tag) \/ is_empty_str(tag) THEN c
    ELSE IF ~isinstance_dict(entry) THEN c
    ELSE LET c1 == _ensure_machine_record(c, machine_id, hostname)
             c2 == dict_setdefault(c1, "entries", PyDict(EmptyMap))
             entries == c2.v["entries"]
         IN  IF ~isinstance_dict(entries) THEN c2
             ELSE LET e2 == dict_setdefault(entries, tag.v, PyDict(EmptyMap))
                      per_tag == e2.v[tag.v]
                  IN  IF ~isinstance_dict(per_tag) THEN dict_set(c2, "entries", e2)
                      ELSE dict_set(c2, "entries",
                               dict_set(PyDict(EmptyMap), tag.v,
                                   dict_set(per_tag, machine_id.v, entry)))

\* a plausible slip: the per-tag mapping is rebuilt instead of updated
set_entry_replaces_per_tag(c, tag, machine_id, entry, hostname) ==
    IF ~isinstance_str(tag) \/ is_empty_str(tag) THEN c
    ELSE IF ~isinstance_dict(entry) THEN c
    ELSE LET c1 == _ensure_machine_record(c, machine_id, hostname)
             c2 == dict_setdefault(c1, "entries", PyDict(EmptyMap))
             entries == c2.v["entries"]
         IN  IF ~isinstance_dict(entries) THEN c2
             ELSE dict_set(c2, "entries",
                      dict_set(entries, tag.v,
                          PyDict([k \in {machine_id.v} |-> entry])))

\* the cache after the in-place update
_set_entry(c, tag, machine_id, entry, hostname) ==
    IF ~isinstance_str(tag) \/ is_empty_str(tag) THEN c
    ELSE IF ~isinstance_dict(entry) THEN c
    ELSE LET c1 == _ensure_machine_record(c, machine_id, hostname)
             c2 == dict_setdefault(c1, "entries", PyDict(EmptyMap))
             entries == c2.v["entries"]
         IN  IF ~isinstance_dict(entries) THEN c2
             ELSE LET e2 == dict_setdefault(entries, tag.v, PyDict(EmptyMap))
                      per_tag == e2.v[tag.v]
                  IN  IF ~isinstance_dict(per_tag) THEN dict_set(c2, "entries", e2)
                      ELSE dict_set(c2, "entries",
                               dict_set(e2, tag.v,
                                   dict_set(per_tag, machine_id.v, entry)))

(***************************************************************************)
(* The cache file.  A file is absent or holds a text; a text either does   *)
(* not decode as JSON or denotes the JSON document json.loads returns for  *)
(* it.  json.dumps(sort_keys=True, indent=2) gives one text per document,  *)
(* so a written text is identified with the document it denotes.           *)
(***************************************************************************)
AbsentFile == [t |-> "absent"]
\* a text json.loads rejects ("{not json")
CorruptText == [t |-> "text", json |-> FALSE]
JsonText(doc) == [t |-> "text", json |-> TRUE, doc |-> doc]

\* what json.dumps followed by json.loads makes of a value: a tuple comes
\* back as a list; everything else of the model comes back as it was
RECURSIVE to_json(_)
to_json(x) ==
    CASE x.t = "dict" -> PyDict([k \in DOMAIN x.v |-> to_json(x.v[k])])
      [] x.t = "tuple" -> PyList(x.v)
      [] OTHER -> x

\* json.dumps raises TypeError on an object it does not know
RECURSIVE json_serializable(_)
json_serializable(x) ==
    CASE x.t = "dict" -> \A k \in DOMAIN x.v : json_serializable(x.v[k])
      [] x.t = "obj" -> FALSE
      [] OTHER -> TRUE

\* read_ok: path.read_text succeeds when the file exists
_read_json(file, read_ok) ==
    IF file.t = "absent" \/ ~read_ok THEN None
    ELSE IF ~file.json THEN None
    ELSE file.doc

\* the outcome of a call that raised
Raised == [t |-> "raise"]

\* a plausible slip: only a missing file is caught, a decode error escapes
load_cache_raises_on_bad_json(file, read_ok) ==
    IF file.t = "text" /\ read_ok /\ ~file.json THEN Raised
    ELSE _coerce_cache(_read_json(file, read_ok))

_load_cache(file, read_ok) == _coerce_cache(_read_json(file, read_ok))

\* the file after the call; write_ok: parent directory, temp file and
\* os.replace all succeed
_atomic_write_text(file, text, write_ok) ==
    IF write_ok THEN text ELSE file

_write_cache(file, c, write_ok) ==
    IF ~json_serializable(c) THEN file
    ELSE _atomic_write_text(file, JsonText(to_json(c)), write_ok)

\* a plausible slip: updated_at is taken into the fingerprint
entry_fingerprint_with_updated_at(entry) ==
    PyTuple(<<dict_get(entry, "frame"), dict_get(entry, "screen_id"),
              dict_get(entry, "screen_frame"), dict_get(entry, "updated_at")>>)

_entry_fingerprint(entry) ==
    PyTuple(<<dict_get(entry, "frame"), dict_get(entry, "screen_id"),
              dict_get(entry, "screen_frame")>>)

\* a plausible slip: the entry is stored into a fresh cache, not into the
\* one that was loaded
upsert_entry_into_new_cache(file, tag, machine_id, entry, skip_if_unchanged, clock, hostname, read_ok, write_ok) ==
    LET reject == [ret |-> FALSE, file |-> file, read |-> FALSE, written |-> FALSE]
    IN
    IF ~isinstance_str(tag) \/ is_empty_str(tag) THEN reject
    ELSE IF ~isinstance_str(machine_id) \/ is_empty_str(machine_id) THEN reject
    ELSE IF ~isinstance_dict(entry) THEN reject
    ELSE
      LET c == _load_cache(file, read_ok)
      IN
      IF c = Raised THEN [reject EXCEPT !.read = TRUE]
      ELSE
        LET old == _get_entry(c, tag, machine_id)
        IN
        IF /\ skip_if_unchanged
           /\ old # None
           /\ _entry_fingerprint(old) = _entry_fingerprint(entry)
        THEN [reject EXCEPT !.read = TRUE]
        ELSE
          LET stamped == dict_setdefault(entry, "updated_at", PyTime(clock))
              c2 == _set_entry(_new_cache, tag, machine_id, stamped, hostname)
              after == _write_cache(file, c2, write_ok)
          IN  [ret |-> TRUE, file |-> after, read |-> TRUE,
               written |-> json_serializable(c2) /\ write_ok]

\* a plausible slip: the stored entry is compared with the new one as a
\* whole, not by fingerprint
upsert_entry_compares_entries(file, tag, machine_id, entry, skip_if_unchanged, clock, hostname, read_ok, write_ok) ==
    LET reject == [ret |-> FALSE, file |-> file, read |-> FALSE, written |-> FALSE]
    IN
    IF ~isinstance_str(tag) \/ is_empty_str(tag) THEN reject
    ELSE IF ~isinstance_str(machine_id) \/ is_empty_str(machine_id) THEN reject
    ELSE IF ~isinstance_dict(entry) THEN reject
    ELSE
      LET c == _load_cache(file, read_ok)
      IN
      IF c = Raised THEN [reject EXCEPT !.read = TRUE]
      ELSE
        LET old == _get_entry(c, tag, machine_id)
        IN
        IF /\ skip_if_unchanged
           /\ old # None
           /\ old = entry
        THEN [reject EXCEPT !.read = TRUE]
        ELSE
          LET stamped == dict_setdefault(entry, "updated_at", PyTime(clock))
              c2 == _set_entry(c, tag, machine_id, stamped, hostname)
              after == _write_cache(file, c2, write_ok)
          IN  [ret |-> TRUE, file |-> after, read |-> TRUE,
               written |-> json_serializable(c2) /\ write_ok]

\* a plausible slip: "not tag" left out of the first check
upsert_entry_accepts_empty_tag(file, tag, machine_id, entry, skip_if_unchanged, clock, hostname, read_ok, write_ok) ==
    LET reject == [ret |-> FALSE, file |-> file, read |-> FALSE, written |-> FALSE]
    IN
    IF ~isinstance_str(tag) THEN reject
    ELSE IF ~isinstance_str(machine_id) \/ is_empty_str(machine_id) THEN reject
    ELSE IF ~isinstance_dict(entry) THEN reject
    ELSE
      LET c == _load_cache(file, read_ok)
      IN
      IF c = Raised THEN [reject EXCEPT !.read = TRUE]
      ELSE
        LET old == _get_entry(c, tag, machine_id)
        IN
        IF /\ skip_if_unchanged
           /\ old # None
           /\ _entry_fingerprint(old) = _entry_fingerprint(entry)
        THEN [reject EXCEPT !.read = TRUE]
        ELSE
          LET stamped == dict_setdefault(entry, "updated_at", PyTime(clock))
              c2 == _set_entry(c, tag, machine_id, stamped, hostname)
              after == _write_cache(file, c2, write_ok)
          IN  [ret |-> TRUE, file |-> after, read |-> TRUE,
               written |-> json_serializable(c2) /\ write_ok]

\* [ret: the value returned, file: the file after the call,
\*  read: the file was read, written: the file was replaced]
\* clock is what _utc_now_iso() returns, hostname what _hostname() returns
_upsert_entry(file, tag, machine_id, entry, skip_if_unchanged, clock, hostname, read_ok, write_ok) ==
    LET reject == [ret |-> FALSE, file |-> file, read |-> FALSE, written |-> FALSE]
    IN
    IF ~isinstance_str(tag) \/ is_empty_str(tag) THEN reject
    ELSE IF ~isinstance_str(machine_id) \/ is_empty_str(machine_id) THEN reject
    ELSE IF ~isinstance_dict(entry) THEN reject
    ELSE
      LET c == _load_cache(file, read_ok)
      IN
      IF c = Raised THEN [reject EXCEPT !.read = TRUE]
      ELSE
        LET old == _get_entry(c, tag, machine_id)
        IN
        IF /\ skip_if_unchanged
           /\ old # None
           /\ _entry_fingerprint(old) = _entry_fingerprint(entry)
        THEN [reject EXCEPT !.read = TRUE]
        ELSE
          LET stamped == dict_setdefault(entry, "updated_at", PyTime(clock))
              c2 == _set_entry(c, tag, machine_id, stamped, hostname)
              after == _write_cache(file, c2, write_ok)
          IN  [ret |-> TRUE, file |-> after, read |-> TRUE,
               written |-> json_serializable(c2) /\ write_ok]

(***************************************************************************)
(* Inputs of the cache functions.                                          *)
(***************************************************************************)
TagA == PyStr("winA")
TagB == PyStr("winB")
GoodTags == {TagA, TagB}
\* the empty tag and a tag that is not a string
BadTags == {PyStr(""), PyInt(7)}

M1 == PyStr("m1")
M2 == PyStr("m2")
MachineIds == {M1, M2}

Hostnames == {"hostA", "hostB"}

Frame1 == <<1, 2, 3, 4>>
Frame2 == <<11, 22, 333, 444>>
ScreenFrame1 == <<0, 0, 1920, 1080>>

\* a full entry, as the tracker builds it and as the tests pass it
FullEntry(frame, updated_at) ==
    PyDict([frame |-> PyList(frame), screen_id |-> PyInt(1),
            screen_frame |-> PyList(ScreenFrame1), updated_at |-> updated_at])
\* an entry without updated_at (tests/test_geometry_cache_io.py)
BareEntry(frame) ==
    PyDict([frame |-> PyList(frame), screen_id |-> PyInt(1),
            screen_frame |-> PyList(ScreenFrame1)])
\* an entry with only a frame (tests/test_geometry_cache_schema.py:54)
FrameOnlyEntry(frame) == PyDict([frame |-> PyList(frame)])

StoreEntries == {FullEntry(Frame1, PyTime(0)), FrameOnlyEntry(Frame2)}
\* values that are not mappings
NonMappings == {None, PyList(<<>>)}

\* decoded documents handed to _coerce_cache
DocVersions == {None, PyInt(1), PyInt(999)}
DocMachines ==
    {None, PyList(<<>>),
     PyDict([m1 |-> PyDict([hostname |-> PyStr("hostA")])])}
DocEntries ==
    {None, PyList(<<>>), PyDict(EmptyMap),
     PyDict([winA |-> PyDict([m1 |-> BareEntry(Frame1)])]),
     PyDict([winA |-> PyList(<<>>)])}
DocExtras == {None, PyStr("x")}

\* a mapping with the given values; a None argument leaves its key out
MkDoc(version, machines, entries, extra) ==
    LET all == [version |-> version, machines |-> machines,
                entries |-> entries, extra |-> extra]
        keys == {k \in DOMAIN all : all[k] # None}
    IN  PyDict([k \in keys |-> all[k]])

Docs ==
    NonMappings \cup
    {MkDoc(ver, m, e, x) : ver \in DocVersions, m \in DocMachines,
                           e \in DocEntries, x \in DocExtras}

(***************************************************************************)
(* SpecStore: the in-memory cache under coerce, set_entry and get_entry.   *)
(***************************************************************************)
NoCall == [op |-> "none"]

\* the variables the store specification does not use
StoreIdle ==
    /\ disk = AbsentFile
    /\ now = 0
    /\ mgr = None
    /\ tracking = "unregistered"
    /\ last_saved_fp = None
    /\ tracker = None
    /\ procs = NoProcs

InitStore ==
    /\ cache = _new_cache
    /\ call = NoCall
    /\ StoreIdle

StoreCoerce(data) ==
    /\ cache' = _coerce_cache(data)
    /\ call' = [op |-> "coerce", data |-> data]
    /\ UNCHANGED <<disk, now, mgr, tracking, last_saved_fp, tracker, procs>>

StoreSetEntry(tag, machine_id, entry, hostname) ==
    /\ cache' = _set_entry(cache, tag, machine_id, entry, hostname)
    /\ call' = [op |-> "set_entry", tag |-> tag, machine_id |-> machine_id,
                entry |-> entry, hostname |-> hostname, before |-> cache]
    /\ UNCHANGED <<disk, now, mgr, tracking, last_saved_fp, tracker, procs>>

StoreEnsureMachineRecord(machine_id, hostname) ==
    /\ cache' = _ensure_machine_record(cache, machine_id, hostname)
    /\ call' = [op |-> "ensure_machine_record", machine_id |-> machine_id,
                hostname |-> hostname, before |-> cache]
    /\ UNCHANGED <<disk, now, mgr, tracking, last_saved_fp, tracker, procs>>

StoreGetEntry(tag, machine_id) ==
    /\ call' = [op |-> "get_entry", tag |-> tag, machine_id |-> machine_id,
                ret |-> _get_entry(cache, tag, machine_id)]
    /\ UNCHANGED <<cache, disk, now, mgr, tracking, last_saved_fp, tracker, procs>>

NextStore ==
    \/ \E data \in Docs : StoreCoerce(data)
    \/ \E tag \in GoodTags \cup BadTags, machine_id \in MachineIds,
          entry \in StoreEntries \cup NonMappings, hostname \in Hostnames :
            StoreSetEntry(tag, machine_id, entry, hostname)
    \/ \E machine_id \in MachineIds, hostname \in Hostnames :
            StoreEnsureMachineRecord(machine_id, hostname)
    \/ \E tag \in GoodTags \cup BadTags, machine_id \in MachineIds :
            StoreGetEntry(tag, machine_id)

SpecStore == InitStore /\ [][NextStore]_vars

(***************************************************************************)
(* SpecFile: the cache file under _upsert_entry, called directly as the    *)
(* tests do, with time passing between calls.                              *)
(***************************************************************************)
MaxClock == 1

\* an entry whose sequences are tuples (a frame not passed through list())
TupleEntry(frame) ==
    PyDict([frame |-> PyTuple(frame), screen_id |-> PyInt(1),
            screen_frame |-> PyTuple(ScreenFrame1)])

\* what _hostname() returns during the run; the files left behind by other
\* runs were written under "hostA"
CurrentHost == "hostB"

HostRecord(hostname) == PyDict([hostname |-> PyStr(hostname)])

\* the file before the first call: missing, undecodable, a document that is
\* no version-1 cache, or a cache another run left behind
InitialFiles ==
    { AbsentFile,
      CorruptText,
      JsonText(PyList(<<>>)),
      JsonText(MkDoc(PyInt(999), PyDict(EmptyMap), PyDict(EmptyMap), None)),
      JsonText(MkDoc(PyInt(1), PyDict([m1 |-> HostRecord("hostA")]),
          PyDict([winA |-> PyDict([m1 |-> FullEntry(Frame1, PyTime(0))])]),
          PyStr("x"))),
      JsonText(MkDoc(PyInt(1),
          PyDict([m1 |-> HostRecord("hostA"), m2 |-> HostRecord("hostB")]),
          PyDict([winA |-> PyDict([m2 |-> FullEntry(Frame2, PyTime(0))]),
                  winB |-> PyDict([m1 |-> FullEntry(Frame2, PyTime(0))])]),
          None)),
      JsonText(MkDoc(PyInt(1), PyDict(EmptyMap),
          PyDict([winA |-> PyList(<<>>)]), None)) }

UpsertEntries ==
    {BareEntry(Frame1), BareEntry(Frame2), TupleEntry(Frame1),
     FullEntry(Frame1, PyTime(0))}

\* (tag, machine id, entry) triples passed to _upsert_entry: every good
\* combination, and each kind of bad argument beside good ones
GoodUpsertArgs == {<<TagA, M1, e>> : e \in UpsertEntries}

UpsertArgs ==
    GoodUpsertArgs
    \cup {<<tag, M1, BareEntry(Frame1)>> : tag \in BadTags}
    \cup {<<TagA, m, BareEntry(Frame1)>> : m \in {PyStr(""), PyInt(7)}}
    \cup {<<TagA, M1, e>> : e \in NonMappings}

\* the variables the file specification does not use
FileIdle ==
    /\ cache = None
    /\ mgr = None
    /\ tracking = "unregistered"
    /\ last_saved_fp = None
    /\ tracker = None
    /\ procs = NoProcs

InitFile ==
    /\ disk \in InitialFiles
    /\ now = 0
    /\ call = NoCall
    /\ FileIdle

\* the entry stored for (tag, machine id), as a reader of the file sees it
StoredEntry(file, tag, machine_id) ==
    _get_entry(_coerce_cache(_read_json(file, TRUE)), tag, machine_id)

\* the file is missing, undecodable or rejected by coerce, or each tag of
\* its entries maps to a mapping
WellFormedFile(file) ==
    LET c == _coerce_cache(_read_json(file, TRUE))
    IN  \A k \in DOMAIN c.v["entries"].v : c.v["entries"].v[k].t = "dict"

\* before the call the file is well formed and holds no entry for
\* (tag, machine id) with the fingerprint of the entry passed in
EntryIsNew(file, args) ==
    /\ WellFormedFile(file)
    /\ LET old == StoredEntry(file, args[1], args[2])
       IN  old = None \/ _entry_fingerprint(old) # _entry_fingerprint(args[3])

\* the callers of _upsert_entry pass tag, machine id and entry; the clock
\* and the host name are the environment's
FileUpsert(args, skip, read_ok, write_ok) ==
    LET r == _upsert_entry(disk, args[1], args[2], args[3], skip, now,
                           CurrentHost, read_ok, write_ok)
        same == call.op = "upsert" /\ call.args = args /\ call.skip = skip
    IN  /\ disk' = r.file
        /\ call' = [op |-> "upsert", args |-> args, skip |-> skip,
                    ok |-> read_ok /\ write_ok, ret |-> r.ret,
                    written |-> r.written,
                    before |-> disk, clock |-> now,
                    \* this call repeats the previous call's arguments
                    rep |-> same,
                    prev_ret |-> same /\ call.ret,
                    prev_ok |-> same /\ call.ok,
                    new |-> args \in GoodUpsertArgs /\ EntryIsNew(disk, args),
                    prev_new |-> same /\ call.new]
        /\ UNCHANGED <<cache, now, mgr, tracking, last_saved_fp, tracker, procs>>

\* time passes
Tick ==
    /\ now < MaxClock
    /\ now' = now + 1
    /\ UNCHANGED <<cache, call, disk, mgr, tracking, last_saved_fp, tracker, procs>>

NextFile ==
    \/ \E args \in UpsertArgs, skip \in BOOLEAN,
          read_ok \in BOOLEAN, write_ok \in BOOLEAN :
            FileUpsert(args, skip, read_ok, write_ok)
    \/ Tick

SpecFile == InitFile /\ [][NextFile]_vars

(***************************************************************************)
(* SpecDetect: _upsert_entry for one (tag, machine id) with entries that   *)
(* differ in one field each, on a working filesystem.                      *)
(***************************************************************************)
\* the same frame on another screen id
OtherScreenIdEntry(frame) ==
    PyDict([frame |-> PyList(frame), screen_id |-> PyInt(2),
            screen_frame |-> PyList(ScreenFrame1)])
\* the same frame and screen id with other screen bounds
OtherScreenFrameEntry(frame) ==
    PyDict([frame |-> PyList(frame), screen_id |-> PyInt(1),
            screen_frame |-> PyList(<<0, 0, 1280, 720>>)])
\* the same geometry with a field the subsystem does not know
AnnotatedEntry(frame) ==
    PyDict([frame |-> PyList(frame), screen_id |-> PyInt(1),
            screen_frame |-> PyList(ScreenFrame1), note |-> PyStr("x")])

DetectEntries ==
    {BareEntry(Frame1), BareEntry(Frame2), FullEntry(Frame1, PyTime(0)),
     TupleEntry(Frame1), OtherScreenIdEntry(Frame1),
     OtherScreenFrameEntry(Frame1), AnnotatedEntry(Frame1)}

DetectArgs == {<<TagA, M1, e>> : e \in DetectEntries}

InitDetect ==
    /\ disk = AbsentFile
    /\ now = 0
    /\ call = NoCall
    /\ FileIdle

NextDetect ==
    \/ \E args \in DetectArgs, skip \in BOOLEAN : FileUpsert(args, skip, TRUE, TRUE)
    \/ Tick

SpecDetect == InitDetect /\ [][NextDetect]_vars

(***************************************************************************)
(* SpecLoad: _load_cache applied to a path that is missing, undecodable or *)
(* holds any of the documents, and that can or cannot be read.             *)
(***************************************************************************)
LoadFiles == {AbsentFile, CorruptText} \cup {JsonText(d) : d \in Docs}

InitLoad ==
    /\ cache = None
    /\ call = NoCall
    /\ disk \in LoadFiles
    /\ now = 0
    /\ mgr = None
    /\ tracking = "unregistered"
    /\ last_saved_fp = None
    /\ tracker = None
    /\ procs = NoProcs

\* cache = _load_cache(path)
Load(read_ok) ==
    /\ cache' = _load_cache(disk, read_ok)
    /\ call' = [op |-> "load", read_ok |-> read_ok]
    /\ UNCHANGED <<disk, now, mgr, tracking, last_saved_fp, tracker, procs>>

NextLoad == \E read_ok \in BOOLEAN : Load(read_ok)

SpecLoad == InitLoad /\ [][NextLoad]_vars

(***************************************************************************)
(* SpecRace: _upsert_entry step by step.  Two independent processes each   *)
(* run one call on the same cache path, their steps interleaved in any     *)
(* order, while a reader may read the path between any two steps.  The     *)
(* steps are those of lines 651-666, 612-617 and 581-606: load, compare,   *)
(* set the entry, serialize, create the temporary file, write it, close    *)
(* it, replace the target.  Each step of the write may fail.               *)
(***************************************************************************)
Procs == {1, 2}

\* a temporary file just created, and one holding the first part of a text
EmptyText == [t |-> "text", json |-> FALSE, part |-> "empty"]
PartialText(doc) == [t |-> "text", json |-> FALSE, part |-> "prefix", of |-> doc]

\* tempfile.NamedTemporaryFile(dir=parent, delete=False): a new file beside
\* the target, under a name of its own
NamedTemporaryFile(file, tmp) == [file |-> file, tmp |-> EmptyText]

\* a plausible slip: the text is written to the target itself
write_to_target(file, tmp, content) == [file |-> content, tmp |-> tmp]

\* f.write(text) and the close of the with block: the temporary file holds
\* content, the target is as before
temp_write(file, tmp, content) == [file |-> file, tmp |-> content]

\* a plausible slip: a rename that leaves an existing target in place
replace_keeps_existing_target(file, tmp) ==
    IF file = AbsentFile THEN [file |-> tmp, tmp |-> AbsentFile]
    ELSE [file |-> file, tmp |-> AbsentFile]

\* os.replace(tmp, path): in one step the target is the temporary file
os_replace(file, tmp) == [file |-> tmp, tmp |-> AbsentFile]

\* a plausible slip: the test before the unlink inverted, so nothing is
\* removed
unlink_skipped(file, tmp, unlink_ok) == [file |-> file, tmp |-> tmp]

\* tmp.unlink(missing_ok=True) after a failure; unlink_ok: it does not raise
\* (when it does, the exception is dropped and the file stays)
temp_unlink(file, tmp, unlink_ok) ==
    [file |-> file, tmp |-> IF unlink_ok THEN AbsentFile ELSE tmp]

\* the call of the first process, and the calls the second may make: for
\* another tag, for the same tag with another frame, or the same call
RaceArgs1 == {<<TagA, M1, BareEntry(Frame1)>>}
RaceArgs2 ==
    {<<TagB, M1, BareEntry(Frame2)>>, <<TagA, M1, BareEntry(Frame2)>>,
     <<TagA, M1, BareEntry(Frame1)>>}

\* the cache file when the race starts: missing, or written by an earlier run
RaceFiles ==
    { AbsentFile,
      JsonText(MkDoc(PyInt(1), PyDict([m2 |-> HostRecord("hostA")]),
          PyDict([winA |-> PyDict([m2 |-> FullEntry(Frame2, PyTime(0))])]),
          None)) }

StartOf(args) ==
    [pc |-> "start", args |-> args, c |-> None, tmp |-> AbsentFile,
     ret |-> FALSE,          \* the value returned, once pc is "done"
     order |-> 0,
     failed |-> "none",      \* the step of the write that raised, if any
     unlink_ok |-> TRUE]     \* the unlink of the cleanup did not raise

\* the variables the race specification does not use
RaceIdle ==
    /\ cache = None
    /\ now = 0
    /\ mgr = None
    /\ tracking = "unregistered"
    /\ last_saved_fp = None
    /\ tracker = None

InitRace ==
    /\ disk \in RaceFiles
    /\ call = NoCall
    /\ \E a1 \in RaceArgs1, a2 \in RaceArgs2 :
           procs = [p \in Procs |-> StartOf(IF p = 1 THEN a1 ELSE a2)]
    /\ RaceIdle

\* how many replaces have happened
Replaces == Cardinality({p \in Procs : procs[p].order > 0})

\* the text json.dumps makes of the process's cache
TextOf(p) == JsonText(to_json(procs[p].c))

\* line 651: cache = _load_cache(path)
RaceLoad(p) ==
    /\ procs[p].pc = "start"
    /\ procs' = [procs EXCEPT ![p].pc = "loaded",
                              ![p].c = _load_cache(disk, TRUE)]
    /\ UNCHANGED <<cache, call, disk, now, mgr, tracking, last_saved_fp, tracker>>

\* lines 652-664: compare with the stored entry, stamp and set the entry
RaceSetEntry(p) ==
    /\ procs[p].pc = "loaded"
    /\ LET a == procs[p].args
           old == _get_entry(procs[p].c, a[1], a[2])
           stamped == dict_setdefault(a[3], "updated_at", PyTime(now))
       IN  IF old # None /\ _entry_fingerprint(old) = _entry_fingerprint(a[3])
           THEN procs' = [procs EXCEPT ![p].pc = "done", ![p].ret = FALSE]
           ELSE procs' = [procs EXCEPT ![p].pc = "set",
                    ![p].c = _set_entry(procs[p].c, a[1], a[2], stamped,
                                        CurrentHost)]
    /\ UNCHANGED <<cache, call, disk, now, mgr, tracking, last_saved_fp, tracker>>

\* lines 612-617: text = json.dumps(cache); when it raises _write_cache
\* returns and _upsert_entry still returns True
RaceDumps(p, ok) ==
    /\ procs[p].pc = "set"
    /\ procs' = IF ok
                THEN [procs EXCEPT ![p].pc = "dumped"]
                ELSE [procs EXCEPT ![p].pc = "done", ![p].ret = TRUE,
                        ![p].failed = "dumps"]
    /\ UNCHANGED <<cache, call, disk, now, mgr, tracking, last_saved_fp, tracker>>

\* one step of _atomic_write_text left the files as r; ok: it did not raise.
\* After a failure (lines 600-606) the temporary file, if one was created,
\* is unlinked, and _upsert_entry still returns True.
RaceFileStep(p, step, ok, unlink_ok, r, next_pc) ==
    /\ disk' = IF ok THEN r.file ELSE disk
    /\ procs' = IF ok
                THEN [procs EXCEPT ![p].pc = next_pc, ![p].tmp = r.tmp]
                ELSE [procs EXCEPT ![p].pc = "done", ![p].ret = TRUE,
                        ![p].failed = step,
                        ![p].unlink_ok = unlink_ok,
                        ![p].tmp = temp_unlink(disk, procs[p].tmp, unlink_ok).tmp]
    /\ UNCHANGED <<cache, call, now, mgr, tracking, last_saved_fp, tracker>>

\* lines 581-594: the parent directory is made (a failure there is dropped
\* and shows here) and the temporary file is created; after a failure there
\* is no temporary file and nothing to unlink
RaceCreateTemp(p, ok) ==
    /\ procs[p].pc = "dumped"
    /\ RaceFileStep(p, "create", ok, TRUE,
           NamedTemporaryFile(disk, procs[p].tmp), "created")

\* line 595: the first part of the text reaches the temporary file
RaceWrite(p, ok, unlink_ok) ==
    /\ procs[p].pc = "created"
    /\ RaceFileStep(p, "write", ok, unlink_ok,
           temp_write(disk, procs[p].tmp, PartialText(TextOf(p).doc)), "writing")

\* lines 595-597 and the end of the with block: the rest is written and the
\* temporary file closed
RaceClose(p, ok, unlink_ok) ==
    /\ procs[p].pc = "writing"
    /\ RaceFileStep(p, "close", ok, unlink_ok,
           temp_write(disk, procs[p].tmp, TextOf(p)), "closed")

\* line 599: os.replace(tmp, path), then return True
RaceReplace(p, ok, unlink_ok) ==
    /\ procs[p].pc = "closed"
    /\ \E r \in {os_replace(disk, procs[p].tmp)} :
           /\ disk' = IF ok THEN r.file ELSE disk
           /\ procs' = [procs EXCEPT ![p].pc = "done", ![p].ret = TRUE,
                   ![p].failed = IF ok THEN "none" ELSE "replace",
                   ![p].unlink_ok = ok \/ unlink_ok,
                   ![p].tmp = IF ok THEN r.tmp
                              ELSE temp_unlink(disk, procs[p].tmp, unlink_ok).tmp,
                   ![p].order = IF ok THEN Replaces + 1 ELSE 0]
    /\ UNCHANGED <<cache, call, now, mgr, tracking, last_saved_fp, tracker>>

\* another process reads the cache path: _read_json(path)
RaceRead ==
    /\ procs # NoProcs
    /\ call' = [op |-> "read", saw |-> disk, data |-> _read_json(disk, TRUE),
                during |-> {procs[p].pc : p \in Procs}]
    /\ UNCHANGED <<cache, disk, now, mgr, tracking, last_saved_fp, tracker, procs>>

NextRace ==
    \/ \E p \in Procs : RaceLoad(p)
    \/ \E p \in Procs : RaceSetEntry(p)
    \/ \E p \in Procs, ok \in BOOLEAN : RaceDumps(p, ok)
    \/ \E p \in Procs, ok \in BOOLEAN : RaceCreateTemp(p, ok)
    \/ \E p \in Procs, ok \in BOOLEAN, unlink_ok \in BOOLEAN :
            RaceWrite(p, ok, unlink_ok)
    \/ \E p \in Procs, ok \in BOOLEAN, unlink_ok \in BOOLEAN :
            RaceClose(p, ok, unlink_ok)
    \/ \E p \in Procs, ok \in BOOLEAN, unlink_ok \in BOOLEAN :
            RaceReplace(p, ok, unlink_ok)
    \/ RaceRead

SpecRace == InitRace /\ [][NextRace]_vars

(***************************************************************************)
(* Path resolution.  A path is [abs: it is absolute, parts: its components]*)
(* and the filesystem is the set of paths that exist.                      *)
(***************************************************************************)
AbsPath(parts) == [abs |-> TRUE, parts |-> parts]
RelPath(parts) == [abs |-> FALSE, parts |-> parts]

\* Path(s) for the strings the specification passes in
Path(s) ==
    CASE s = "" -> RelPath(<<>>)
      [] s = "/explicit" -> AbsPath(<<"explicit">>)
      [] s = "/env" -> AbsPath(<<"env">>)
      [] s = "/proj/run.py" -> AbsPath(<<"proj", "run.py">>)
      [] s = "/proj/notes.txt" -> AbsPath(<<"proj", "notes.txt">>)
      [] s = "/gone/run.py" -> AbsPath(<<"gone", "run.py">>)
      [] s = "sub/run.py" -> RelPath(<<"sub", "run.py">>)
      [] s = "~/run.py" -> RelPath(<<"~", "run.py">>)

\* p / name
PathJoin(p, name) == [p EXCEPT !.parts = @ \o <<name>>]

\* p.parent
PathParent(p) ==
    IF p.parts = <<>> THEN p
    ELSE [p EXCEPT !.parts = SubSeq(@, 1, Len(@) - 1)]

\* p.suffix
PathSuffix(p) ==
    IF p.parts = <<>> THEN ""
    ELSE LET name == p.parts[Len(p.parts)]
         IN  IF name = "run.py" THEN ".py"
             ELSE IF name = "notes.txt" THEN ".txt"
             ELSE ""

\* the user's home directory
HomeDir == AbsPath(<<"home", "me">>)

\* p.expanduser()
PathExpandUser(p) ==
    IF ~p.abs /\ p.parts # <<>> /\ p.parts[1] = "~"
    THEN [HomeDir EXCEPT !.parts = @ \o SubSeq(p.parts, 2, Len(p.parts))]
    ELSE p

\* Path.cwd(): the working directory, or Raised when it no longer exists
WorkDir == AbsPath(<<"work">>)
CwdOutcomes == {WorkDir, Raised}

\* p.resolve(): absolute, relative to the working directory; Raised when
\* the path is relative and the working directory cannot be resolved
PathResolve(p, cwd) ==
    IF p.abs THEN p
    ELSE IF cwd = Raised THEN Raised
    ELSE [cwd EXCEPT !.parts = @ \o p.parts]

\* the files that exist
ExistingPaths ==
    {AbsPath(<<"proj", "run.py">>), AbsPath(<<"proj", "notes.txt">>),
     AbsPath(<<"work", "sub", "run.py">>), AbsPath(<<"home", "me", "run.py">>)}

\* p.exists()
PathExists(p, cwd) ==
    LET r == PathResolve(p, cwd)
    IN  r # Raised /\ (r \in ExistingPaths \/ r = cwd)

CacheSubdir == ".matplotlib-window-tracker"

\* a plausible slip: "env is not None" instead of "if env"
resolve_cache_dir_accepts_empty_env(cache_dir, env, interactive, argv, cwd) ==
    IF cache_dir # None
    THEN IF cache_dir.t # "str" THEN Raised
         ELSE PathJoin(Path(cache_dir.v), CacheSubdir)
    ELSE IF env # None
    THEN PathJoin(Path(env.v), CacheSubdir)
    ELSE IF interactive
    THEN IF cwd = Raised THEN Raised ELSE PathJoin(cwd, CacheSubdir)
    ELSE LET argv0 == IF argv = <<>> THEN "" ELSE argv[1]
             p == PathExpandUser(Path(argv0))
         IN  IF PathSuffix(p) = ".py" /\ PathExists(p, cwd)
             THEN PathJoin(PathParent(PathResolve(p, cwd)), CacheSubdir)
             ELSE IF cwd = Raised THEN Raised
             ELSE PathJoin(cwd, CacheSubdir)

\* cache_dir: the argument (None, a string, or a value Path() rejects);
\* env: os.environ.get(...) (None when unset); interactive: is_interactive();
\* argv: sys.argv; cwd: what Path.cwd() gives.  The result is a path, or
\* Raised when an exception leaves the function.
_resolve_cache_dir(cache_dir, env, interactive, argv, cwd) ==
    IF cache_dir # None
    THEN IF cache_dir.t # "str" THEN Raised
         ELSE PathJoin(Path(cache_dir.v), CacheSubdir)
    ELSE IF env # None /\ env.v # ""
    THEN PathJoin(Path(env.v), CacheSubdir)
    ELSE IF interactive
    THEN IF cwd = Raised THEN Raised ELSE PathJoin(cwd, CacheSubdir)
    ELSE LET argv0 == IF argv = <<>> THEN "" ELSE argv[1]
             p == PathExpandUser(Path(argv0))
         IN  IF PathSuffix(p) = ".py" /\ PathExists(p, cwd)
             THEN PathJoin(PathParent(PathResolve(p, cwd)), CacheSubdir)
             ELSE IF cwd = Raised THEN Raised
             ELSE PathJoin(cwd, CacheSubdir)

_cache_file_path(cache_dir, env, interactive, argv, cwd) ==
    LET d == _resolve_cache_dir(cache_dir, env, interactive, argv, cwd)
    IN  IF d = Raised THEN Raised ELSE PathJoin(d, "window_geometry.json")

\* the inputs of path resolution
CacheDirArgs == {None, PyStr("/explicit"), PyStr(""), PyInt(7)}
EnvValues == {None, PyStr(""), PyStr("/env")}
Argvs ==
    {<<>>, <<"">>, <<"/proj/run.py">>, <<"/proj/notes.txt">>,
     <<"/gone/run.py">>, <<"sub/run.py">>, <<"~/run.py">>}

\* the variables the path specification does not use
PathsIdle ==
    /\ cache = None
    /\ disk = AbsentFile
    /\ now = 0
    /\ mgr = None
    /\ tracking = "unregistered"
    /\ last_saved_fp = None
    /\ tracker = None
    /\ procs = NoProcs

InitPaths ==
    /\ call = NoCall
    /\ PathsIdle

ResolveCacheDir(cache_dir, env, interactive, argv, cwd) ==
    /\ call' = [op |-> "resolve_cache_dir", cache_dir |-> cache_dir,
                env |-> env, interactive |-> interactive, argv |-> argv,
                cwd |-> cwd,
                ret |-> _resolve_cache_dir(cache_dir, env, interactive, argv, cwd)]
    /\ UNCHANGED <<cache, disk, now, mgr, tracking, last_saved_fp, tracker, procs>>

CacheFilePath(cache_dir, env, interactive, argv, cwd) ==
    /\ call' = [op |-> "cache_file_path", cache_dir |-> cache_dir,
                env |-> env, interactive |-> interactive, argv |-> argv,
                cwd |-> cwd,
                ret |-> _cache_file_path(cache_dir, env, interactive, argv, cwd)]
    /\ UNCHANGED <<cache, disk, now, mgr, tracking, last_saved_fp, tracker, procs>>

NextPaths ==
    \/ \E cache_dir \in CacheDirArgs, env \in EnvValues,
          interactive \in BOOLEAN, argv \in Argvs, cwd \in CwdOutcomes :
            ResolveCacheDir(cache_dir, env, interactive, argv, cwd)
    \/ \E cache_dir \in CacheDirArgs, env \in EnvValues,
          interactive \in BOOLEAN, argv \in Argvs, cwd \in CwdOutcomes :
            CacheFilePath(cache_dir, env, interactive, argv, cwd)

SpecPaths == InitPaths /\ [][NextPaths]_vars

(***************************************************************************)
(* The window manager (the toolkit's side) and the tracker.                *)
(***************************************************************************)
Positions == {<<1, 2>>, <<11, 22>>}
Sizes == {<<3, 4>>, <<333, 444>>}
\* the frames a window can take: [x, y, w, h]
Frames == {p \o z : p \in Positions, z \in Sizes}
Screens == {1, 2}
\* the bounds the manager reports for a screen
ScreenFrameOf(screen) ==
    IF screen = 1 THEN ScreenFrame1
    ELSE IF screen = 2 THEN <<1920, 0, 1280, 720>>
    ELSE <<0, 0, 1920>>
\* a frame of three elements, and a screen whose bounds have three
ShortFrame == <<1, 2, 3>>
OddScreen == 3

\* a plausible slip: set_window_frame left out of the required names
required_without_set_window_frame ==
    {"get_window_frame", "get_window_screen_id",
     "get_screen_frame", "mpl_connect", "mpl_disconnect"}

\* the names track_position_size requires of the manager
required ==
    {"get_window_frame", "set_window_frame", "get_window_screen_id",
     "get_screen_frame", "mpl_connect", "mpl_disconnect"}

\* what _machine_id() returns on this machine
ThisMachine == M1

\* the manager of a window showing frame on screen, with the attributes attrs
NewManager(has_manager, attrs) ==
    [has_manager |-> has_manager,   \* fig.canvas.manager resolves
     attrs |-> attrs,
     alive |-> TRUE,                \* the weak reference still resolves
     frame |-> Frame1,
     screen |-> 1,
     callbacks |-> {},              \* the connected subscription ids
     next_cid |-> 1,
     disconnected |-> <<>>]         \* the ids passed to mpl_disconnect

_has_attrs(obj, names) == names \subseteq obj.attrs

\* the subscription id of an event once both are connected
CidOf(event) == IF event = "window_move_end_event" THEN 1 ELSE 2

\* mgr.set_window_frame(x, y, w, h): the manager after the call, or Raised
set_window_frame(m, frame, call_ok) ==
    IF "set_window_frame" \notin m.attrs \/ ~call_ok THEN Raised
    ELSE [m EXCEPT !.frame = frame]

\* a plausible slip: a failed query is replaced by a default, not given up on
mk_entry_with_defaults(m, clock, query_ok) ==
    IF ~query_ok
    THEN PyDict([frame |-> PyList(m.frame),
                 screen_id |-> None,
                 screen_frame |-> None,
                 updated_at |-> PyTime(clock)])
    ELSE PyDict([frame |-> PyList(m.frame),
                 screen_id |-> PyInt(m.screen),
                 screen_frame |-> PyList(ScreenFrameOf(m.screen)),
                 updated_at |-> PyTime(clock)])

\* query_ok: none of the three geometry queries raises
_mk_entry_from_manager(m, clock, query_ok) ==
    IF ~query_ok THEN None
    ELSE PyDict([frame |-> PyList(m.frame),
                 screen_id |-> PyInt(m.screen),
                 screen_frame |-> PyList(ScreenFrameOf(m.screen)),
                 updated_at |-> PyTime(clock)])

\* a plausible slip: the cached frame is returned but never applied
restore_without_set_window_frame(m, tag, machine_id, file, read_ok, set_ok) ==
    LET c == _load_cache(file, read_ok)
        entry == _get_entry(c, tag, machine_id)
        frame == dict_get(entry, "frame")
        miss == [ret |-> None, mgr |-> m, set_called |-> FALSE]
    IN  IF entry = None THEN miss
        ELSE IF ~(frame.t \in {"list", "tuple"} /\ Len(frame.v) = 4) THEN miss
        ELSE [ret |-> PyList(frame.v), mgr |-> m, set_called |-> FALSE]

\* [ret: the applied frame or None, mgr: the manager after the call,
\*  set_called: set_window_frame was called]; the file is always read
_restore_from_cache(m, tag, machine_id, file, read_ok, set_ok) ==
    LET c == _load_cache(file, read_ok)
        entry == _get_entry(c, tag, machine_id)
        frame == dict_get(entry, "frame")
        miss == [ret |-> None, mgr |-> m, set_called |-> FALSE]
    IN  IF entry = None THEN miss
        ELSE IF ~(frame.t \in {"list", "tuple"} /\ Len(frame.v) = 4) THEN miss
        ELSE LET m2 == set_window_frame(m, frame.v, set_ok)
             IN  IF m2 = Raised THEN [miss EXCEPT !.set_called = TRUE]
                 ELSE [ret |-> PyList(frame.v), mgr |-> m2, set_called |-> TRUE]

\* the tag of the one registration this specification makes
TrackedTag == TagA

\* how the two mpl_connect calls and the int() of their ids end
ConnectOutcomes == {"ok", "first_raises", "second_raises", "opaque_cid"}

\* mgr.mpl_connect(event, cb): the manager with one more subscription
mpl_connect(m) ==
    [m EXCEPT !.callbacks = @ \cup {m.next_cid}, !.next_cid = @ + 1]

\* [tracking: "handle", "absent" (None returned) or "raised", mgr: the
\*  manager after the call, fp: the initial last-saved fingerprint,
\*  cids: the subscription ids, read: the cache file was read,
\*  set_called: set_window_frame was called]
\* fail names the call that raises, if any: "set" or "query" for the toolkit,
\* "path" for _cache_file_path (a cache_dir Path() rejects, or a working
\* directory that cannot be resolved)
track_position_size(m, file, tag, restore_from_cache, clock, fail, conn, read_ok) ==
    LET absent == [tracking |-> "absent", mgr |-> m, fp |-> None, cids |-> <<>>,
                   read |-> FALSE, set_called |-> FALSE]
    IN
    IF ~isinstance_str(tag) \/ is_empty_str(tag) THEN absent
    ELSE IF ~m.has_manager THEN absent
    ELSE IF ~_has_attrs(m, required) THEN absent
    ELSE IF fail = "path" THEN [absent EXCEPT !.tracking = "raised"]
    ELSE
      LET rs == IF restore_from_cache
                THEN _restore_from_cache(m, tag, ThisMachine, file, read_ok,
                                         fail # "set")
                ELSE [ret |-> None, mgr |-> m, set_called |-> FALSE]
          entry == _mk_entry_from_manager(rs.mgr, clock, fail # "query")
          fp == IF rs.ret # None /\ entry # None
                THEN _entry_fingerprint(entry) ELSE None
          after == [absent EXCEPT !.mgr = rs.mgr, !.fp = fp,
                                  !.read = restore_from_cache,
                                  !.set_called = rs.set_called]
          m1 == mpl_connect(rs.mgr)
          m2 == mpl_connect(m1)
      IN
      IF conn = "first_raises" \/ "mpl_connect" \notin m.attrs THEN after
      ELSE IF conn = "second_raises" THEN [after EXCEPT !.mgr = m1]
      ELSE IF conn = "opaque_cid"
           THEN [after EXCEPT !.mgr = m2, !.tracking = "raised"]
      ELSE [after EXCEPT !.mgr = m2, !.tracking = "handle",
                         !.cids = <<rs.mgr.next_cid, m1.next_cid>>]

\* a plausible slip: the handler upserts without consulting last_saved_fp
on_end_event_without_fingerprint_check(m, file, fp_saved, clock, query_ok, read_ok, write_ok) ==
    LET noop == [fp |-> fp_saved, file |-> file, read |-> FALSE, written |-> FALSE]
        entry == _mk_entry_from_manager(m, clock, query_ok)
        fp == _entry_fingerprint(entry)
        u == _upsert_entry(file, TrackedTag, ThisMachine, entry, TRUE, clock,
                           CurrentHost, read_ok, write_ok)
    IN  IF ~m.alive THEN noop
        ELSE IF entry = None THEN noop
        ELSE [fp |-> IF u.ret THEN fp ELSE fp_saved, file |-> u.file,
              read |-> u.read, written |-> u.written]

\* [fp: last_saved_fp after the handler, file: the file after it,
\*  read, written: the file was read, replaced]
_on_end_event(m, file, fp_saved, clock, query_ok, read_ok, write_ok) ==
    LET noop == [fp |-> fp_saved, file |-> file, read |-> FALSE, written |-> FALSE]
        entry == _mk_entry_from_manager(m, clock, query_ok)
        fp == _entry_fingerprint(entry)
        u == _upsert_entry(file, TrackedTag, ThisMachine, entry, TRUE, clock,
                           CurrentHost, read_ok, write_ok)
    IN  IF ~m.alive THEN noop
        ELSE IF entry = None THEN noop
        ELSE IF fp_saved # None /\ fp = fp_saved THEN noop
        ELSE [fp |-> IF u.ret THEN fp ELSE fp_saved, file |-> u.file,
              read |-> u.read, written |-> u.written]

\* WindowTracker._save_from_mgr: [ret: wrote, fp: self._last_saved_fp after
\* the call, file, read, written]
_save_from_mgr(self, m, file, force, clock, query_ok, read_ok, write_ok) ==
    LET noop == [ret |-> FALSE, fp |-> self._last_saved_fp, file |-> file,
                 read |-> FALSE, written |-> FALSE]
        entry == _mk_entry_from_manager(m, clock, query_ok)
        fp == _entry_fingerprint(entry)
        u == _upsert_entry(file, self.tag, self.machine_id, entry, TRUE, clock,
                           CurrentHost, read_ok, write_ok)
    IN  IF ~m.alive THEN noop
        ELSE IF entry = None THEN noop
        ELSE IF ~force /\ self._last_saved_fp # None /\ fp = self._last_saved_fp
             THEN noop
        ELSE [ret |-> u.ret, fp |-> IF u.ret THEN fp ELSE self._last_saved_fp,
              file |-> u.file, read |-> u.read, written |-> u.written]

\* the result of a handle method: the manager, the handle's fingerprint and
\* the file after the call, and whether the call read the file
MethodResult(m, sv) == [mgr |-> m, fp |-> sv.fp, file |-> sv.file, read |-> sv.read]

save_now(self, m, file, clock, query_ok, read_ok, write_ok) ==
    MethodResult(m, _save_from_mgr(self, m, file, FALSE, clock, query_ok,
                                   read_ok, write_ok))

\* a plausible slip: the frame is applied without looking whether the
\* manager is still there
set_frame_without_manager_check(self, m, file, frame, clock, fail, read_ok, write_ok) ==
    LET m2 == set_window_frame(m, frame, fail # "set")
        unchanged == [mgr |-> m, fp |-> self._last_saved_fp, file |-> file,
                      read |-> FALSE]
    IN  IF m2 = Raised THEN unchanged
        ELSE MethodResult(m2, _save_from_mgr(self, m2, file, FALSE, clock,
                                  fail # "query", read_ok, write_ok))

\* fail names the toolkit call that raises, if any: "get", "set" or "query"
set_frame(self, m, file, frame, clock, fail, read_ok, write_ok) ==
    LET m2 == set_window_frame(m, frame, fail # "set")
        unchanged == [mgr |-> m, fp |-> self._last_saved_fp, file |-> file,
                      read |-> FALSE]
    IN  IF ~m.alive THEN unchanged
        ELSE IF m2 = Raised THEN unchanged
        ELSE MethodResult(m2, _save_from_mgr(self, m2, file, FALSE, clock,
                                  fail # "query", read_ok, write_ok))

\* a plausible slip: the body of set_size pasted into set_position, so the
\* arguments land in the size half of the frame
set_position_writes_size(self, m, file, pos, clock, fail, read_ok, write_ok) ==
    LET unchanged == [mgr |-> m, fp |-> self._last_saved_fp, file |-> file,
                      read |-> FALSE]
        frame == m.frame
        m2 == set_window_frame(m, SubSeq(frame, 1, 2) \o pos, fail # "set")
    IN  IF ~m.alive THEN unchanged
        ELSE IF fail = "get" THEN unchanged
        ELSE IF Len(frame) # 4 THEN unchanged
        ELSE IF m2 = Raised THEN unchanged
        ELSE MethodResult(m2, _save_from_mgr(self, m2, file, FALSE, clock,
                                  fail # "query", read_ok, write_ok))

set_position(self, m, file, pos, clock, fail, read_ok, write_ok) ==
    LET unchanged == [mgr |-> m, fp |-> self._last_saved_fp, file |-> file,
                      read |-> FALSE]
        frame == m.frame
        m2 == set_window_frame(m, pos \o SubSeq(frame, 3, 4), fail # "set")
    IN  IF ~m.alive THEN unchanged
        ELSE IF fail = "get" THEN unchanged
        ELSE IF Len(frame) # 4 THEN unchanged
        ELSE IF m2 = Raised THEN unchanged
        ELSE MethodResult(m2, _save_from_mgr(self, m2, file, FALSE, clock,
                                  fail # "query", read_ok, write_ok))

set_size(self, m, file, size, clock, fail, read_ok, write_ok) ==
    LET unchanged == [mgr |-> m, fp |-> self._last_saved_fp, file |-> file,
                      read |-> FALSE]
        frame == m.frame
        m2 == set_window_frame(m, SubSeq(frame, 1, 2) \o size, fail # "set")
    IN  IF ~m.alive THEN unchanged
        ELSE IF fail = "get" THEN unchanged
        ELSE IF Len(frame) # 4 THEN unchanged
        ELSE IF m2 = Raised THEN unchanged
        ELSE MethodResult(m2, _save_from_mgr(self, m2, file, FALSE, clock,
                                  fail # "query", read_ok, write_ok))

restore_position_and_size(self, m, file, clock, fail, read_ok) ==
    LET unchanged == [mgr |-> m, fp |-> self._last_saved_fp, file |-> file,
                      read |-> FALSE]
        rs == _restore_from_cache(m, self.tag, self.machine_id, file, read_ok,
                                  fail # "set")
        entry == _mk_entry_from_manager(rs.mgr, clock, fail # "query")
    IN  IF ~m.alive THEN unchanged
        ELSE IF rs.ret = None THEN [unchanged EXCEPT !.mgr = rs.mgr, !.read = TRUE]
        ELSE IF entry = None THEN [unchanged EXCEPT !.mgr = rs.mgr, !.read = TRUE]
        ELSE [mgr |-> rs.mgr, fp |-> _entry_fingerprint(entry), file |-> file,
              read |-> TRUE]

\* a plausible slip: one try around the loop, so the first failure ends it
disconnect_stops_at_first_failure(self, m, failed) ==
    IF ~m.alive THEN m
    ELSE IF self._cids[1] \in failed
         THEN [m EXCEPT !.disconnected = @ \o <<self._cids[1]>>]
    ELSE [m EXCEPT !.disconnected = @ \o self._cids,
                   !.callbacks = @ \ ({self._cids[1], self._cids[2]} \ failed)]

\* the manager after disconnect(); failed: the ids whose mpl_disconnect raises
disconnect(self, m, failed) ==
    IF ~m.alive THEN m
    ELSE [m EXCEPT !.disconnected = @ \o self._cids,
                   !.callbacks = @ \ ({self._cids[1], self._cids[2]} \ failed)]

(***************************************************************************)
(* Spec: one window, one call of track_position_size, then the toolkit's   *)
(* notifications, the user's moves of the window and the handle's methods, *)
(* each toolkit call and filesystem step free to fail.                     *)
(***************************************************************************)
MaxDisconnects == 2

\* an entry measured on the given screen
ScreenEntry(frame, screen) ==
    PyDict([frame |-> PyList(frame), screen_id |-> PyInt(screen),
            screen_frame |-> PyList(ScreenFrameOf(screen)),
            updated_at |-> PyTime(0)])

\* a cache file an earlier run left, holding one entry
CacheFileWith(tag, machine_id, entry) ==
    JsonText(PyDict([version |-> PyInt(1),
        machines |-> PyDict([k \in {machine_id.v} |-> HostRecord("hostA")]),
        entries |-> PyDict([k \in {tag.v} |->
                        PyDict([j \in {machine_id.v} |-> entry])])]))

\* the file when the window is registered: missing, undecodable, or holding
\* an entry for this window: on the window's screen (the test's case), on
\* another screen, with a frame of three elements, or for another machine
TrackerFiles ==
    { AbsentFile,
      CorruptText,
      CacheFileWith(TrackedTag, ThisMachine, ScreenEntry(Frame2, 1)),
      CacheFileWith(TrackedTag, ThisMachine, ScreenEntry(Frame2, 2)),
      CacheFileWith(TrackedTag, ThisMachine,
          PyDict([frame |-> PyList(<<1, 2, 3>>), screen_id |-> PyInt(1),
                  screen_frame |-> PyList(ScreenFrame1)])),
      CacheFileWith(TrackedTag, M2, ScreenEntry(Frame2, 1)) }

\* the six operations a manager must offer
SixOperations ==
    {"get_window_frame", "set_window_frame", "get_window_screen_id",
     "get_screen_frame", "mpl_connect", "mpl_disconnect"}

\* the windows handed to track_position_size: a full manager, a manager
\* lacking one operation, an object without a manager
Managers ==
    {NewManager(TRUE, SixOperations)}
    \cup {NewManager(TRUE, SixOperations \ {a}) : a \in SixOperations}
    \cup {NewManager(FALSE, {})}

Init ==
    /\ cache = None
    /\ call = NoCall
    /\ disk \in TrackerFiles
    /\ now = 0
    /\ mgr \in Managers
    /\ tracking = "unregistered"
    /\ last_saved_fp = None
    /\ tracker = None
    /\ procs = NoProcs

\* The one thing that goes wrong during an operation, if any: a toolkit call
\* raises (the first get_window_frame of a setter, set_window_frame, one of
\* the three geometry queries), or the filesystem fails on the read, on the
\* write, or on both.  A toolkit call that raises ends the operation before
\* the file is touched, so one choice covers every combination.
Mishaps == {"ok", "get", "set", "query", "read", "write", "read_write"}
FailOf(env) == IF env \in {"get", "set", "query", "path"} THEN env ELSE "none"
ReadOk(env) == env \notin {"read", "read_write"}
WriteOk(env) == env \notin {"write", "read_write"}

\* the caller holds the figure, so its manager, if any, exists
Track(tag, restore_from_cache, env, conn) ==
    /\ tracking = "unregistered"
    /\ mgr.alive
    /\ \E r \in {track_position_size(mgr, disk, tag, restore_from_cache, now,
                                      FailOf(env), conn, ReadOk(env))} :
           /\ tracking' = r.tracking
           /\ mgr' = r.mgr
           /\ last_saved_fp' = r.fp
           /\ tracker' = IF r.tracking = "handle"
                         THEN [tag |-> tag, machine_id |-> ThisMachine,
                               _cids |-> r.cids, _last_saved_fp |-> r.fp]
                         ELSE None
           /\ call' = [op |-> "track", tag |-> tag,
                       restore |-> restore_from_cache, env |-> env,
                       read |-> r.read, set_called |-> r.set_called,
                       before |-> mgr, file |-> disk]
    /\ UNCHANGED <<cache, disk, now, procs>>

\* the user moves or resizes the window, or drags it to the other screen
WindowChange(frame, screen) ==
    /\ mgr.alive
    /\ <<frame, screen>> # <<mgr.frame, mgr.screen>>
    /\ mgr' = [mgr EXCEPT !.frame = frame, !.screen = screen]
    /\ call' = [op |-> "window_change"]
    /\ UNCHANGED <<cache, disk, now, tracking, last_saved_fp, tracker, procs>>

\* the window is closed and its manager collected
Close ==
    /\ mgr.alive
    /\ mgr' = [mgr EXCEPT !.alive = FALSE]
    /\ call' = [op |-> "close"]
    /\ UNCHANGED <<cache, disk, now, tracking, last_saved_fp, tracker, procs>>

\* the toolkit delivers a move-completed or resize-completed notification
Notify(event, env) ==
    /\ CidOf(event) \in mgr.callbacks
    /\ \E r \in {_on_end_event(mgr, disk, last_saved_fp, now, env # "query",
                                ReadOk(env), WriteOk(env))} :
           /\ last_saved_fp' = r.fp
           /\ disk' = r.file
           /\ call' = [op |-> "notify", ok |-> env = "ok", read |-> r.read,
                       fail |-> FailOf(env),
                       nofp |-> _on_end_event(mgr, disk, None, now,
                                    env # "query", ReadOk(env), WriteOk(env)).file]
    /\ UNCHANGED <<cache, now, mgr, tracking, tracker, procs>>

\* the handle with its last-saved fingerprint cleared
Forgetful(self) == [self EXCEPT !._last_saved_fp = None]

\* a method of the handle returned r; arg is the position or the size it
\* was given, nofp the file the same call leaves when the handle's
\* last-saved fingerprint is cleared first
HandleMethod(name, arg, env, r, nofp) ==
    /\ mgr' = r.mgr
    /\ tracker' = [tracker EXCEPT !._last_saved_fp = r.fp]
    /\ disk' = r.file
    /\ call' = [op |-> name, ok |-> env = "ok", read |-> r.read,
                fail |-> FailOf(env), arg |-> arg, nofp |-> nofp]
    /\ UNCHANGED <<cache, now, tracking, last_saved_fp, procs>>

SaveNow(env) ==
    /\ tracking = "handle"
    /\ \E r \in {save_now(tracker, mgr, disk, now, env # "query",
                           ReadOk(env), WriteOk(env))} :
           HandleMethod("save_now", <<>>, env, r,
               save_now(Forgetful(tracker), mgr, disk, now, env # "query",
                        ReadOk(env), WriteOk(env)).file)

SetFrame(frame, env) ==
    /\ tracking = "handle"
    /\ \E r \in {set_frame(tracker, mgr, disk, frame, now, FailOf(env),
                            ReadOk(env), WriteOk(env))} :
           HandleMethod("set_frame", <<>>, env, r,
               set_frame(Forgetful(tracker), mgr, disk, frame, now,
                         FailOf(env), ReadOk(env), WriteOk(env)).file)

SetPosition(pos, env) ==
    /\ tracking = "handle"
    /\ \E r \in {set_position(tracker, mgr, disk, pos, now, FailOf(env),
                               ReadOk(env), WriteOk(env))} :
           HandleMethod("set_position", pos, env, r,
               set_position(Forgetful(tracker), mgr, disk, pos, now,
                            FailOf(env), ReadOk(env), WriteOk(env)).file)

SetSize(size, env) ==
    /\ tracking = "handle"
    /\ \E r \in {set_size(tracker, mgr, disk, size, now, FailOf(env),
                           ReadOk(env), WriteOk(env))} :
           HandleMethod("set_size", size, env, r,
               set_size(Forgetful(tracker), mgr, disk, size, now,
                        FailOf(env), ReadOk(env), WriteOk(env)).file)

RestorePositionAndSize(env) ==
    /\ tracking = "handle"
    /\ \E r \in {restore_position_and_size(tracker, mgr, disk, now,
                                            FailOf(env), ReadOk(env))} :
           HandleMethod("restore_position_and_size", <<>>, env, r,
               restore_position_and_size(Forgetful(tracker), mgr, disk, now,
                                         FailOf(env), ReadOk(env)).file)

\* failed: the ids whose mpl_disconnect raises
Disconnect(failed) ==
    /\ tracking = "handle"
    /\ Len(mgr.disconnected) < 2 * MaxDisconnects
    /\ mgr' = disconnect(tracker, mgr, failed)
    /\ call' = [op |-> "disconnect", ok |-> failed = {}, failed |-> failed,
                before |-> mgr.disconnected]
    /\ UNCHANGED <<cache, disk, now, tracking, last_saved_fp, tracker, procs>>

Events == {"window_move_end_event", "window_resize_end_event"}

\* Registration and the life of the subscription: any window, any file, any
\* failure of the toolkit or of the filesystem.
Next ==
    \/ \E tag \in {TrackedTag} \cup BadTags, restore_from_cache \in BOOLEAN,
          env \in {"ok", "set", "query", "read", "path"},
          conn \in ConnectOutcomes :
            Track(tag, restore_from_cache, env, conn)
    \/ \E frame \in Frames, screen \in Screens : WindowChange(frame, screen)
    \/ Close
    \/ \E event \in Events, env \in Mishaps \ {"get", "set"} : Notify(event, env)
    \/ \E failed \in SUBSET {1, 2} : Disconnect(failed)

Spec == Init /\ [][Next]_vars

(***************************************************************************)
(* SpecHandle: a tracked window in normal operation.  The window has a     *)
(* full manager and stays on its screen, the file is missing or holds the  *)
(* entry an earlier run saved on that screen, and no toolkit call and no   *)
(* filesystem step fails.                                                  *)
(***************************************************************************)
InitHandle ==
    /\ cache = None
    /\ call = NoCall
    /\ disk \in {AbsentFile,
                 CacheFileWith(TrackedTag, ThisMachine, ScreenEntry(Frame2, 1))}
    /\ now = 0
    /\ mgr = NewManager(TRUE, SixOperations)
    /\ tracking = "unregistered"
    /\ last_saved_fp = None
    /\ tracker = None
    /\ procs = NoProcs

NextHandle ==
    \/ \E restore_from_cache \in BOOLEAN :
            Track(TrackedTag, restore_from_cache, "ok", "ok")
    \/ \E frame \in Frames : WindowChange(frame, mgr.screen)
    \/ \E event \in Events : Notify(event, "ok")
    \/ SaveNow("ok")
    \/ \E frame \in Frames : SetFrame(frame, "ok")
    \/ \E pos \in Positions : SetPosition(pos, "ok")
    \/ \E size \in Sizes : SetSize(size, "ok")
    \/ RestorePositionAndSize("ok")

SpecHandle == InitHandle /\ [][NextHandle]_vars

(***************************************************************************)
(* SpecMishap: the same window while it is open, each toolkit call and     *)
(* filesystem step free to fail (SpecGone has the closed window).          *)
(***************************************************************************)
NextMishap ==
    \/ \E restore_from_cache \in BOOLEAN, env \in {"ok", "set", "query", "read"} :
            Track(TrackedTag, restore_from_cache, env, "ok")
    \/ \E frame \in Frames : WindowChange(frame, mgr.screen)
    \/ \E event \in Events, env \in Mishaps \ {"get", "set"} : Notify(event, env)
    \/ \E env \in Mishaps \ {"get", "set"} : SaveNow(env)
    \/ \E frame \in Frames, env \in Mishaps \ {"get"} : SetFrame(frame, env)
    \/ \E pos \in Positions, env \in Mishaps : SetPosition(pos, env)
    \/ \E size \in Sizes, env \in Mishaps : SetSize(size, env)
    \/ \E env \in {"ok", "set", "query", "read"} : RestorePositionAndSize(env)

SpecMishap == InitHandle /\ [][NextMishap]_vars

(***************************************************************************)
(* SpecGone: a tracked window that is closed at some point while the       *)
(* toolkit goes on delivering notifications and the program goes on        *)
(* calling the handle.  Until the window is closed nothing fails; once it  *)
(* is closed each toolkit call and filesystem step is free to fail.        *)
(***************************************************************************)
\* what may go wrong in a call on manager m, out of the mishaps that call has
MishapsNow(m, mishaps) == IF m.alive THEN {"ok"} ELSE mishaps

NextGone ==
    \/ \E restore_from_cache \in BOOLEAN :
            Track(TrackedTag, restore_from_cache, "ok", "ok")
    \/ Close
    \/ \E event \in Events, env \in MishapsNow(mgr, Mishaps \ {"get", "set"}) :
            Notify(event, env)
    \/ \E env \in MishapsNow(mgr, Mishaps \ {"get", "set"}) : SaveNow(env)
    \/ \E frame \in Frames, env \in MishapsNow(mgr, Mishaps \ {"get"}) :
            SetFrame(frame, env)
    \/ \E pos \in Positions, env \in MishapsNow(mgr, Mishaps) :
            SetPosition(pos, env)
    \/ \E size \in Sizes, env \in MishapsNow(mgr, Mishaps) : SetSize(size, env)
    \/ \E env \in MishapsNow(mgr, {"ok", "set", "query", "read"}) :
            RestorePositionAndSize(env)
    \/ \E failed \in SUBSET {1, 2} : Disconnect(failed)

SpecGone == InitHandle /\ [][NextGone]_vars

(***************************************************************************)
(* SpecScreens: a tracked window in normal operation on a machine with two *)
(* screens.  The file is missing or holds the entry an earlier run saved   *)
(* on either screen; the window opens on the first screen and can be moved *)
(* to the other; no toolkit call and no filesystem step fails.             *)
(***************************************************************************)
InitScreens ==
    /\ cache = None
    /\ call = NoCall
    /\ disk \in {AbsentFile,
                 CacheFileWith(TrackedTag, ThisMachine, ScreenEntry(Frame2, 1)),
                 CacheFileWith(TrackedTag, ThisMachine, ScreenEntry(Frame2, 2))}
    /\ now = 0
    /\ mgr = NewManager(TRUE, SixOperations)
    /\ tracking = "unregistered"
    /\ last_saved_fp = None
    /\ tracker = None
    /\ procs = NoProcs

NextScreens ==
    \/ \E restore_from_cache \in BOOLEAN :
            Track(TrackedTag, restore_from_cache, "ok", "ok")
    \/ \E frame \in Frames, screen \in Screens : WindowChange(frame, screen)
    \/ \E event \in Events : Notify(event, "ok")
    \/ SaveNow("ok")
    \/ \E frame \in Frames : SetFrame(frame, "ok")
    \/ \E pos \in Positions : SetPosition(pos, "ok")
    \/ \E size \in Sizes : SetSize(size, "ok")
    \/ RestorePositionAndSize("ok")

SpecScreens == InitScreens /\ [][NextScreens]_vars

(***************************************************************************)
(* SpecFrames: a tracked window whose manager may report anything: a frame *)
(* or screen bounds of three elements beside the regular ones.  The two    *)
(* toolkit calls of set_position and set_size are free to fail; nothing    *)
(* else fails.                                                             *)
(***************************************************************************)
InitFrames ==
    /\ cache = None
    /\ call = NoCall
    /\ disk = AbsentFile
    /\ now = 0
    /\ mgr = NewManager(TRUE, SixOperations)
    /\ tracking = "unregistered"
    /\ last_saved_fp = None
    /\ tracker = None
    /\ procs = NoProcs

NextFrames ==
    \/ \E restore_from_cache \in BOOLEAN :
            Track(TrackedTag, restore_from_cache, "ok", "ok")
    \/ \E frame \in Frames \cup {ShortFrame}, screen \in {1, OddScreen} :
            WindowChange(frame, screen)
    \/ \E event \in Events : Notify(event, "ok")
    \/ SaveNow("ok")
    \/ \E frame \in Frames : SetFrame(frame, "ok")
    \/ \E pos \in Positions, env \in {"ok", "get", "set"} : SetPosition(pos, env)
    \/ \E size \in Sizes, env \in {"ok", "get", "set"} : SetSize(size, env)
    \/ RestorePositionAndSize("ok")

SpecFrames == InitFrames /\ [][NextFrames]_vars

(***************************************************************************)
(* SpecMalformed: a window registered over a cache file whose entry for it *)
(* is malformed: a frame, or screen bounds, of three elements.  Nothing    *)
(* fails.                                                                  *)
(***************************************************************************)
\* an entry whose frame has three elements
ShortFrameEntry ==
    PyDict([frame |-> PyList(ShortFrame), screen_id |-> PyInt(1),
            screen_frame |-> PyList(ScreenFrame1), updated_at |-> PyTime(0)])
\* an entry whose screen bounds have three elements
ShortScreenEntry ==
    PyDict([frame |-> PyList(Frame2), screen_id |-> PyInt(1),
            screen_frame |-> PyList(ScreenFrameOf(OddScreen)),
            updated_at |-> PyTime(0)])

InitMalformed ==
    /\ cache = None
    /\ call = NoCall
    /\ disk \in {CacheFileWith(TrackedTag, ThisMachine, ShortFrameEntry),
                 CacheFileWith(TrackedTag, ThisMachine, ShortScreenEntry)}
    /\ now = 0
    /\ mgr = NewManager(TRUE, SixOperations)
    /\ tracking = "unregistered"
    /\ last_saved_fp = None
    /\ tracker = None
    /\ procs = NoProcs

NextMalformed ==
    \/ \E restore_from_cache \in BOOLEAN :
            Track(TrackedTag, restore_from_cache, "ok", "ok")
    \/ \E frame \in Frames : WindowChange(frame, mgr.screen)
    \/ \E event \in Events : Notify(event, "ok")
    \/ SaveNow("ok")
    \/ RestorePositionAndSize("ok")

SpecMalformed == InitMalformed /\ [][NextMalformed]_vars

(***************************************************************************)
(* SpecShared: several handles of one process, each with its own tag and   *)
(* window, share the cache file.  Every handler and every manual operation *)
(* that gets past its in-memory fingerprint ends in one call               *)
(* _upsert_entry(path, tag, machine id, entry of the window,               *)
(* skip_if_unchanged=True); the calls run one after another.               *)
(***************************************************************************)
SharedTags == GoodTags

InitShared ==
    /\ disk \in {AbsentFile,
                 CacheFileWith(TrackedTag, ThisMachine, ScreenEntry(Frame2, 1))}
    /\ now = 0
    /\ call = NoCall
    /\ FileIdle

\* the handle tagged tag saves its window, which shows frame
SharedSave(tag, frame) ==
    /\ tag \in SharedTags
    /\ FileUpsert(<<tag, ThisMachine,
                    _mk_entry_from_manager([frame |-> frame, screen |-> 1],
                                           now, TRUE)>>,
                  TRUE, TRUE, TRUE)

NextShared ==
    \/ \E tag \in SharedTags, frame \in Frames : SharedSave(tag, frame)
    \/ Tick

SpecShared == InitShared /\ [][NextShared]_vars

(***************************************************************************)
(* Claims about the in-memory cache (checked under SpecStore).             *)
(***************************************************************************)
TopLevelKeys == {"version", "machines", "entries"}

\* the claim's own reading of "not a valid version-1 mapping"
RejectedByCoerce(d) ==
    \/ d.t # "dict"
    \/ "version" \notin DOMAIN d.v
    \/ "machines" \notin DOMAIN d.v
    \/ "entries" \notin DOMAIN d.v
    \/ d.v["version"] # [t |-> "int", v |-> 1]
    \/ d.v["machines"].t # "dict"
    \/ d.v["entries"].t # "dict"

\* C7: coerce is total and all-or-nothing: for every input it returns the
\* empty cache {version:1, machines:{}, entries:{}} when the input is not a
\* mapping, its version is not 1, or machines or entries is not a mapping;
\* otherwise it returns a cache with exactly the keys version, machines and
\* entries, carrying the input's machines and entries and dropping every
\* other top-level key.
C7_CoerceAllOrNothing ==
    call.op = "coerce" =>
        IF RejectedByCoerce(call.data)
        THEN cache = PyDict([version |-> PyInt(1), machines |-> PyDict(EmptyMap),
                             entries |-> PyDict(EmptyMap)])
        ELSE /\ DOMAIN cache.v = TopLevelKeys
             /\ cache.v["version"] = PyInt(1)
             /\ cache.v["machines"] = call.data.v["machines"]
             /\ cache.v["entries"] = call.data.v["entries"]

\* C7 witness: coerce ran on a valid version-1 mapping that carries an
\* unrecognised top-level key and non-empty entries, and dropped the key.
C7_Witness ==
    /\ call.op = "coerce"
    /\ ~RejectedByCoerce(call.data)
    /\ "extra" \in DOMAIN call.data.v
    /\ "extra" \notin DOMAIN cache.v
    /\ cache.v["entries"] # PyDict(EmptyMap)

\* C8: machine isolation: after set_entry(cache, tag, m1, e), get_entry(cache,
\* tag, m2) for every machine id m2 other than m1 returns exactly what it
\* returned before the call (None when there was no entry for m2).
C8_MachineIsolation ==
    call.op = "set_entry" =>
        \A m2 \in MachineIds \ {call.machine_id} :
            _get_entry(cache, call.tag, m2) = _get_entry(call.before, call.tag, m2)

\* C8 witness: set_entry stored an entry for m1 under a tag that already held
\* an entry for another machine, and one under a tag that held none.
C8_Witness ==
    /\ call.op = "set_entry"
    /\ _get_entry(cache, call.tag, call.machine_id) = call.entry
    /\ _get_entry(call.before, call.tag, call.machine_id) # call.entry
    /\ \E m2 \in MachineIds \ {call.machine_id} :
            _get_entry(call.before, call.tag, m2) # None

\* C9: round trip: for any non-empty string tag, any machine id and any
\* mapping entry e, after set_entry(new_empty_cache(), tag, mid, e) the call
\* get_entry(cache, tag, mid) returns e, and the cache has a machine record
\* for mid with a hostname.
C9_RoundTrip ==
    ( /\ call.op = "set_entry"
      /\ call.before = _new_cache
      /\ call.tag \in GoodTags
      /\ call.entry.t = "dict" ) =>
        /\ _get_entry(cache, call.tag, call.machine_id) = call.entry
        /\ call.machine_id.v \in DOMAIN cache.v["machines"].v
        /\ "hostname" \in DOMAIN cache.v["machines"].v[call.machine_id.v].v
        /\ cache.v["machines"].v[call.machine_id.v].v["hostname"].v \in Hostnames

\* C9 witness: set_entry ran on the empty cache with a good tag and a mapping
\* entry (one without updated_at), and the entry is stored.
C9_Witness ==
    /\ call.op = "set_entry"
    /\ call.before = _new_cache
    /\ call.tag \in GoodTags
    /\ call.entry = FrameOnlyEntry(Frame2)
    /\ cache # _new_cache

(***************************************************************************)
(* Claims about _upsert_entry on the cache file (checked under SpecFile).  *)
(***************************************************************************)
\* the entry as _upsert_entry stores it: updated_at defaulted to the time of
\* the call, sequences in their JSON form
EntryAsStored(entry, clock) ==
    to_json(IF "updated_at" \in DOMAIN entry.v THEN entry
            ELSE PyDict([k \in DOMAIN entry.v \cup {"updated_at"} |->
                     IF k = "updated_at" THEN PyTime(clock) ELSE entry.v[k]]))

\* the file decodes to a mapping with exactly the keys of a version-1 cache
ValidCacheFile(file) ==
    /\ file.t = "text"
    /\ file.json
    /\ file.doc.t = "dict"
    /\ DOMAIN file.doc.v = TopLevelKeys
    /\ file.doc.v["version"] = PyInt(1)
    /\ file.doc.v["machines"].t = "dict"
    /\ file.doc.v["entries"].t = "dict"

\* two calls in a row with the same tag, machine id, entry and
\* skip_if_unchanged=True, on a working filesystem, the entry being a
\* well-formed entry (a mapping of JSON values) that is new to the file
\* before the first call
TwoIdenticalUpserts ==
    /\ call.op = "upsert"
    /\ call.rep
    /\ call.skip
    /\ call.args \in GoodUpsertArgs
    /\ to_json(call.args[3]) = call.args[3]
    /\ call.ok
    /\ call.prev_ok
    /\ call.prev_new

C6_CorruptionRecovery ==
    ( /\ call.op = "upsert"
      /\ call.before = CorruptText
      /\ call.args \in GoodUpsertArgs
      /\ call.ok ) =>
        /\ call.ret
        /\ ValidCacheFile(disk)
        /\ StoredEntry(disk, call.args[1], call.args[2])
               = EntryAsStored(call.args[3], call.clock)

\* C6 witness: upsert_entry ran on the undecodable file with an entry that
\* has no updated_at, after time had passed, and the file now decodes.
C6_Witness ==
    /\ call.op = "upsert"
    /\ call.before = CorruptText
    /\ call.args = <<TagA, M1, BareEntry(Frame1)>>
    /\ call.ok
    /\ call.clock > 0
    /\ disk # CorruptText

(***************************************************************************)
(* Claims about registration (checked under Spec).                         *)
(***************************************************************************)
\* the frame of the entry the file holds for the tracked window on this
\* machine when it is a sequence of four elements, <<>> otherwise
CachedFrame(file) ==
    LET entry == StoredEntry(file, TrackedTag, ThisMachine)
        frame == dict_get(entry, "frame")
    IN  IF entry = None THEN <<>>
        ELSE IF frame.t \in {"list", "tuple"} /\ Len(frame.v) = 4 THEN frame.v
        ELSE <<>>

\* C1: restore on registration: when track(window, tag, restore=True) is
\* called and the cache file holds an entry for (tag, current machine id)
\* whose frame is a 4-element sequence, then when registration returns a
\* handle the manager's frame equals the cached frame [x, y, w, h] (the file
\* being readable and the manager accepting the frame); when no such entry
\* exists the manager's frame is left untouched and no frame is set.
C1_RestoreOnRegistration ==
    (call.op = "track" /\ call.restore /\ call.tag = TrackedTag) =>
        IF CachedFrame(call.file) # <<>>
        THEN (tracking = "handle" /\ call.env \notin {"set", "read"})
                 => mgr.frame = CachedFrame(call.file)
        ELSE mgr.frame = call.before.frame /\ ~call.set_called

\* C1 witness: registration with restore returned a handle for a window
\* that showed another frame than the cached one, and the window now shows
\* the cached frame.
C1_Witness ==
    /\ call.op = "track"
    /\ call.restore
    /\ tracking = "handle"
    /\ CachedFrame(call.file) = Frame2
    /\ call.before.frame # Frame2
    /\ mgr.frame = Frame2

\* C10: missing capability or bad tag: if the tag is empty or not a string,
\* or the window's manager lacks any of the six required operations, track
\* returns an absent handle and has no effect: no frame is set on the
\* manager, no subscription is made, and the cache file is neither read nor
\* written.
C10_NoEffectWithoutCapability ==
    ( /\ call.op = "track"
      /\ \/ call.tag \in BadTags
         \/ ~(SixOperations \subseteq call.before.attrs) ) =>
        /\ tracking = "absent"
        /\ ~call.set_called
        /\ mgr.frame = call.before.frame
        /\ mgr.callbacks = {}
        /\ mgr = call.before
        /\ ~call.read
        /\ disk = call.file

\* C10 witness: a manager with everything but set_window_frame was
\* registered with restore under a good tag while the file held a frame for
\* it, and the call returned an absent handle.
C10_Witness ==
    /\ call.op = "track"
    /\ call.tag = TrackedTag
    /\ call.restore
    /\ call.before.attrs = SixOperations \ {"set_window_frame"}
    /\ CachedFrame(call.file) # <<>>
    /\ tracking = "absent"

(***************************************************************************)
(* Claims about a tracked window in normal operation (checked under        *)
(* SpecHandle).                                                            *)
(***************************************************************************)
\* (frame, screen_id, screen_frame) as the window reports them
WindowFp(m) ==
    <<PyList(m.frame), PyInt(m.screen), PyList(ScreenFrameOf(m.screen))>>

\* (frame, screen_id, screen_frame) of the persisted entry for the tracked
\* window on this machine, None when the file holds none
PersistedFp(file) ==
    LET entry == StoredEntry(file, TrackedTag, ThisMachine)
    IN  IF entry = None THEN None
        ELSE <<dict_get(entry, "frame"), dict_get(entry, "screen_id"),
               dict_get(entry, "screen_frame")>>

\* C2: save on notification: for a tracker that is the only writer of its
\* cache file, after any sequence of window changes, manual handle operations
\* and move-completed/resize-completed notifications, once a notification
\* handler has run with a successful geometry query and a working
\* filesystem, the persisted entry for (tag, machine id) has the same
\* (frame, screen_id, screen_frame) as the window currently reports.
C2_SaveOnNotification ==
    (call.op = "notify" /\ call.ok /\ mgr.alive) =>
        PersistedFp(disk) = WindowFp(mgr)

\* C3: manual operations persist: after save_now(), set_frame(),
\* set_position() or set_size() returns on a live handle (toolkit calls and
\* filesystem succeeding, handle the only writer), in any state reachable by
\* earlier notifications and manual operations, the persisted entry for
\* (tag, machine id) has the same (frame, screen_id, screen_frame) as the
\* window currently reports.
C3_ManualOperationsPersist ==
    ( /\ call.op \in {"save_now", "set_frame", "set_position", "set_size"}
      /\ call.ok
      /\ mgr.alive ) =>
        PersistedFp(disk) = WindowFp(mgr)

\* C4: one last-saved fingerprint serves both save paths: the fingerprint
\* consulted by the automatic on-change handler and the fingerprint consulted
\* by the handle's manual operations are the same value in every reachable
\* state.
C4_OneFingerprint ==
    tracking = "handle" => last_saved_fp = tracker._last_saved_fp

(***************************************************************************)
(* Claims about disconnect (checked under Spec).                           *)
(***************************************************************************)
\* how many times id was passed to mpl_disconnect in the log
TimesUnsubscribed(log, id) == Cardinality({i \in DOMAIN log : log[i] = id})

\* the ids the last call of disconnect() passed to mpl_disconnect
UnsubscribedByCall == SubSeq(mgr.disconnected, Len(call.before) + 1,
                             Len(mgr.disconnected))

\* C11: disconnect unsubscribes both ids: one call to disconnect() on a
\* handle whose manager is alive calls the manager's unsubscribe exactly
\* once for the move-completed subscription id and exactly once for the
\* resize-completed subscription id, and the second id is still unsubscribed
\* when the unsubscribe of the first id fails.
C11_DisconnectUnsubscribesBoth ==
    (call.op = "disconnect" /\ mgr.alive) =>
        /\ SubSeq(mgr.disconnected, 1, Len(call.before)) = call.before
        /\ Len(UnsubscribedByCall) = 2
        /\ TimesUnsubscribed(UnsubscribedByCall, tracker._cids[1]) = 1
        /\ TimesUnsubscribed(UnsubscribedByCall, tracker._cids[2]) = 1
        /\ \A i \in {1, 2} :
               tracker._cids[i] \notin call.failed
                   => tracker._cids[i] \notin mgr.callbacks

\* C11 witness: the first disconnect() of a handle, the unsubscribe of the
\* move-completed id raising: both ids were passed on and the
\* resize-completed subscription is gone.
C11_Witness ==
    /\ call.op = "disconnect"
    /\ mgr.alive
    /\ call.before = <<>>
    /\ call.failed = {tracker._cids[1]}
    /\ mgr.disconnected = tracker._cids
    /\ tracker._cids[2] \notin mgr.callbacks
    /\ tracker._cids[1] \in mgr.callbacks

\* C12: disconnect is idempotent: over any number of calls to disconnect()
\* on the same handle, each of the two subscription ids is passed to the
\* manager's unsubscribe once in total; a second or later call performs no
\* further unsubscribe.
C12_DisconnectIdempotent ==
    tracking = "handle" =>
        \A i \in {1, 2} :
            TimesUnsubscribed(mgr.disconnected, tracker._cids[i]) <= 1

(***************************************************************************)
(* Claims about path resolution (checked under SpecPaths).                 *)
(***************************************************************************)
\* the invocation path of the call, with the home directory expanded
InvocationPath ==
    PathExpandUser(Path(IF call.argv = <<>> THEN "" ELSE call.argv[1]))

\* rules 1 to 5 of the call, first match winning
RuleOfCall ==
    IF call.cache_dir # None THEN 1
    ELSE IF call.env # None /\ call.env # PyStr("") THEN 2
    ELSE IF call.interactive THEN 3
    ELSE IF PathSuffix(InvocationPath) = ".py"
            /\ PathExists(InvocationPath, call.cwd) THEN 4
    ELSE 5

\* the root the rule names
RootOfCall ==
    CASE RuleOfCall = 1 -> Path(call.cache_dir.v)
      [] RuleOfCall = 2 -> Path(call.env.v)
      [] RuleOfCall = 4 -> PathParent(PathResolve(InvocationPath, call.cwd))
      [] OTHER -> call.cwd

C14_RegistrationNeverRaises ==
    call.op = "track" => tracking \in {"handle", "absent"}

(***************************************************************************)
(* Claims about rejected upserts (checked under SpecFile).                 *)
(***************************************************************************)
\* the tag is empty or not a string, the machine id is empty or not a
\* string, or the entry is not a mapping
BadUpsertInput(args) ==
    \/ args[1].t # "str" \/ args[1] = PyStr("")
    \/ args[2].t # "str" \/ args[2] = PyStr("")
    \/ args[3].t # "dict"

\* C15: upsert rejects bad input without side effects: when the tag is
\* empty or not a string, the machine id is empty or not a string, or the
\* entry is not a mapping, upsert_entry returns False, raises nothing, and
\* leaves the cache file exactly as it was (not created when it was absent).
C15_UpsertRejectsBadInput ==
    (call.op = "upsert" /\ BadUpsertInput(call.args)) =>
        /\ call.ret = FALSE
        /\ disk = call.before

\* C15 witness: upsert_entry was called with an empty tag and a good entry
\* while no file existed, on a working filesystem, and there is still none.
C15_Witness ==
    /\ call.op = "upsert"
    /\ call.args = <<PyStr(""), M1, BareEntry(Frame1)>>
    /\ call.ok
    /\ call.before = AbsentFile
    /\ disk = AbsentFile
    /\ call.ret = FALSE

(***************************************************************************)
(* Claims about concurrent use of the cache file (checked under SpecRace). *)
(***************************************************************************)
\* the processes whose replace has happened
Replaced == {p \in Procs : procs[p].order > 0}

\* the complete contents the cache path can have held: the content before
\* the writes, and the complete text of each writer that has replaced it
CompleteContents == RaceFiles \cup {TextOf(p) : p \in Replaced}

\* C16: atomic replace: while a write of the cache is in progress (temp file
\* created in the same directory, text written, target replaced), a reader
\* of the cache path at any intermediate step sees either the complete
\* previous content or the complete new content, never a partially written
\* file.
C16_AtomicReplace ==
    /\ disk \in CompleteContents
    /\ call.op = "read" =>
          /\ call.saw \in CompleteContents
          /\ call.saw # AbsentFile => call.data # None

\* C16 witness: the path was read while a writer had written only the first
\* part of its text, and the reader got the complete previous document.
C16_Witness ==
    /\ call.op = "read"
    /\ "writing" \in call.during
    /\ call.saw \in RaceFiles \ {AbsentFile}
    /\ call.data # None
    /\ \E p \in Procs : procs[p].pc = "writing" /\ procs[p].tmp # call.saw

\* the process whose replace happened last
LastReplacer == CHOOSE p \in Replaced : \A q \in Replaced : procs[q].order <= procs[p].order

\* C17: racing writers: when two independent processes run upsert_entry on
\* the same cache file with their load, modify and replace steps interleaved
\* in any order, the final file is a complete well-formed version-1 cache
\* equal to the snapshot of the process whose replace happened last (last
\* replace wins, no merge).
C17_LastReplaceWins ==
    ((\A p \in Procs : procs[p].pc = "done") /\ Replaced # {}) =>
        /\ disk = TextOf(LastReplacer)
        /\ ValidCacheFile(disk)
        /\ LET a == procs[LastReplacer].args
           IN  StoredEntry(disk, a[1], a[2]) = EntryAsStored(a[3], now)

\* C17 witness: both processes replaced the file, each for its own tag, and
\* the entry the first to replace wrote is absent from the final file.
C17_Witness ==
    /\ \A p \in Procs : procs[p].pc = "done"
    /\ Replaced = Procs
    /\ \E p \in Procs :
          /\ p # LastReplacer
          /\ procs[p].args[1] # procs[LastReplacer].args[1]
          /\ StoredEntry(disk, procs[p].args[1], procs[p].args[2]) = None

(***************************************************************************)
(* Claims about handles sharing one file (checked under SpecShared).       *)
(***************************************************************************)
\* C18: no lost update within one process: when several tracker handles
\* with different tags share one cache file and their handlers and manual
\* operations run one after another, after any such sequence the file
\* holds, for every tag, the entry last written for that tag; a write for
\* one tag never removes or reverts the entry of another tag.  Stated per
\* save: a save that writes leaves its entry under its tag, a save that does
\* not write leaves the file as it was, and either way the entry of every
\* other tag is what it was before the save.
C18_NoLostUpdate ==
    call.op = "upsert" =>
        /\ call.ret => StoredEntry(disk, call.args[1], call.args[2])
                           = EntryAsStored(call.args[3], call.clock)
        /\ ~call.ret => disk = call.before
        /\ \A tag \in SharedTags \ {call.args[1]} :
               StoredEntry(disk, tag, ThisMachine)
                   = StoredEntry(call.before, tag, ThisMachine)

\* C18 witness: a handle overwrote its own earlier entry while the file
\* held another handle's entry with another frame, which is still there.
C18_Witness ==
    /\ call.op = "upsert"
    /\ call.ret
    /\ call.args[1] = TagB
    /\ StoredEntry(call.before, TagB, ThisMachine) # None
    /\ StoredEntry(disk, TagB, ThisMachine) # StoredEntry(call.before, TagB, ThisMachine)
    /\ StoredEntry(disk, TagA, ThisMachine) # None
    /\ dict_get(StoredEntry(disk, TagA, ThisMachine), "frame")
           # dict_get(StoredEntry(disk, TagB, ThisMachine), "frame")

(***************************************************************************)
(* Claims about the last-saved fingerprint as an optimization (checked     *)
(* under SpecHandle).                                                      *)
(***************************************************************************)
\* C19: the last-saved fingerprint is only an optimization: for any
\* sequence of window changes, notifications and manual operations on one
\* tracker, the persisted entry after each step is the same as in a run of
\* the same sequence in which the in-memory last-saved fingerprint is
\* cleared before every step.  Stated per step: the two runs agree until a
\* first step leaves different entries from the same file and window, so
\* every step must leave the entry it leaves with the fingerprint cleared.
C19_FingerprintOnlyOptimization ==
    call.op \in {"notify", "save_now", "set_frame", "set_position",
                 "set_size", "restore_position_and_size"} =>
        StoredEntry(disk, TrackedTag, ThisMachine)
            = StoredEntry(call.nofp, TrackedTag, ThisMachine)

(***************************************************************************)
(* Claims about a tracker whose window is gone (checked under SpecGone).   *)
(***************************************************************************)
\* C20: inert after the window is gone: once the window's manager no longer
\* exists, the on-change handler and disconnect, save_now, set_frame,
\* set_position, set_size and restore_position_and_size do nothing: no
\* toolkit call (the manager, its frame, its subscriptions and its log of
\* unsubscriptions stay as they are), no read or write of the cache file,
\* no change of either last-saved fingerprint, and no exception (the
\* registration stays a handle), whichever toolkit call or filesystem step
\* would have failed.
C20_InertAfterWindowGone ==
    [][~mgr.alive =>
        /\ mgr' = mgr
        /\ disk' = disk
        /\ last_saved_fp' = last_saved_fp
        /\ tracker' = tracker
        /\ tracking' = tracking
        /\ call'.op \in {"notify", "save_now", "set_frame", "set_position",
                         "set_size", "restore_position_and_size"}
               => ~call'.read]_vars

\* restore_position_and_size was called on a closed window whose cache file
\* holds a frame other than the one the window had
C20_Witness ==
    /\ ~mgr.alive
    /\ call.op = "restore_position_and_size"
    /\ call.ok
    /\ CachedFrame(disk) # <<>>
    /\ CachedFrame(disk) # mgr.frame

(***************************************************************************)
(* Claims about the fingerprint after a restore (checked under             *)
(* SpecScreens, where every restore that finds a frame applies it).        *)
(***************************************************************************)
\* C21: restore seeds the last-saved fingerprint with the cached entry:
\* after a registration with restore, or a restore_position_and_size, that
\* applied a cached entry, the last-saved fingerprint equals the
\* fingerprint (frame, screen_id, screen_frame) of that persisted entry.
C21_RestoreSeedsFingerprint ==
    /\ ( /\ call.op = "track"
          /\ call.restore
          /\ CachedFrame(disk) # <<>> ) =>
            last_saved_fp
                = _entry_fingerprint(StoredEntry(disk, TrackedTag, ThisMachine))
    /\ ( /\ call.op = "restore_position_and_size"
          /\ CachedFrame(disk) # <<>> ) =>
            tracker._last_saved_fp
                = _entry_fingerprint(StoredEntry(disk, TrackedTag, ThisMachine))

(***************************************************************************)
(* Claims about the on-change handler (checked under SpecMishap).          *)
(***************************************************************************)
\* the fingerprint of the geometry the manager reports now
CurrentFp(m) == _entry_fingerprint(_mk_entry_from_manager(m, 0, TRUE))

\* C22: no disk I/O on an unchanged notification: whenever the on-change
\* handler runs and the fingerprint of the window's current geometry equals
\* the last-saved fingerprint, the handler neither reads nor writes the
\* cache file and leaves the last-saved fingerprint unchanged, whether or
\* not the filesystem would have failed.
C22_NoIoOnUnchangedNotification ==
    [][( /\ call'.op = "notify"
         /\ last_saved_fp # None
         /\ last_saved_fp = CurrentFp(mgr) ) =>
            /\ ~call'.read
            /\ disk' = disk
            /\ last_saved_fp' = last_saved_fp]_vars

\* a notification found the live window at its last-saved geometry and did
\* not read the file
C22_Witness ==
    /\ call.op = "notify"
    /\ call.ok
    /\ mgr.alive
    /\ ~call.read
    /\ last_saved_fp = CurrentFp(mgr)

(***************************************************************************)
(* Claims about what _upsert_entry reports (checked under SpecFile).       *)
(***************************************************************************)
\* C23: upsert reports real writes: upsert_entry returns True only when the
\* cache file was actually replaced with content containing the new entry,
\* and returns False when serialization, the temp-file write or the
\* replace fails (so that the tracker's last-saved fingerprint, which
\* follows the returned value, changes only after a write that reached the
\* disk).
C23_UpsertReportsRealWrites ==
    (call.op = "upsert" /\ call.ret) =>
        /\ call.written
        /\ StoredEntry(disk, call.args[1], call.args[2])
               = EntryAsStored(call.args[3], call.clock)

\* C24: query failure in the handler is a no-op: when one of the three
\* geometry queries (frame, screen id, screen bounds) fails while the
\* on-change handler or a manual save (save_now, or the save that ends
\* set_frame, set_position and set_size) runs, nothing is read from or
\* written to the cache file, neither last-saved fingerprint changes, no
\* exception reaches the caller (the registration stays as it is), and the
\* subscriptions stay active, so that a later notification is handled from
\* the same state.
C24_QueryFailureIsNoOp ==
    [][( /\ call'.op \in {"notify", "save_now", "set_frame", "set_position",
                           "set_size"}
         /\ call'.fail = "query" ) =>
            /\ ~call'.read
            /\ disk' = disk
            /\ last_saved_fp' = last_saved_fp
            /\ tracker' = tracker
            /\ tracking' = tracking
            /\ mgr'.callbacks = mgr.callbacks]_vars

\* a notification for a live window away from its last-saved geometry met a
\* failing query, and both subscriptions are still active
C24_Witness ==
    /\ call.op = "notify"
    /\ call.fail = "query"
    /\ mgr.alive
    /\ last_saved_fp # CurrentFp(mgr)
    /\ mgr.callbacks = {1, 2}

(***************************************************************************)
(* Claims about the frames set and persisted (checked under SpecFrames).   *)
(***************************************************************************)
\* C25: set_position and set_size change only their half of the frame: for
\* a manager reporting frame [x0, y0, w0, h0], set_position(x, y) sets the
\* frame to [x, y, w0, h0] and set_size(w, h) sets it to [x0, y0, w, h];
\* when the manager's reported frame does not have 4 elements or a toolkit
\* call (get_window_frame, set_window_frame) fails, the frame is not set
\* and nothing is saved.
C25_SettersChangeTheirHalf ==
    [][( call'.op \in {"set_position", "set_size"} /\ mgr.alive ) =>
         IF Len(mgr.frame) = 4 /\ call'.fail \notin {"get", "set"}
         THEN mgr'.frame =
                IF call'.op = "set_position"
                THEN call'.arg \o SubSeq(mgr.frame, 3, 4)
                ELSE SubSeq(mgr.frame, 1, 2) \o call'.arg
         ELSE /\ mgr' = mgr
              /\ disk' = disk
              /\ ~call'.read
              /\ tracker' = tracker]_vars

\* set_position moved a window and kept a size that is not the one the
\* window had at registration
C25_Witness ==
    /\ call.op = "set_position"
    /\ call.ok
    /\ mgr.frame = call.arg \o <<333, 444>>
    /\ call.arg = <<11, 22>>

(***************************************************************************)
(* Claims about malformed entries in the file (checked under               *)
(* SpecMalformed).                                                         *)
(***************************************************************************)
\* the value is a sequence of four elements
FourElements(x) == x.t \in {"list", "tuple"} /\ Len(x.v) = 4

\* the entry has a frame or screen bounds that are present and are not a
\* sequence of four elements
Malformed(entry) ==
    /\ entry # None
    /\ \E k \in {"frame", "screen_frame"} :
           k \in DOMAIN entry.v /\ ~FourElements(entry.v[k])

\* C26: malformed frames are rejected on read: a persisted entry whose
\* frame (or screen_frame) is present but is not a 4-element sequence is
\* treated as no entry: get_entry does not return it, restore (at
\* registration or by restore_position_and_size) never applies it to the
\* window, and the last-saved fingerprint is not seeded from it.
C26_MalformedRejectedOnRead ==
    [][( /\ call'.op \in {"track", "restore_position_and_size"}
         /\ call'.op = "track" => call'.restore
         /\ Malformed(StoredEntry(disk, TrackedTag, ThisMachine)) ) =>
            /\ _get_entry(_load_cache(disk, TRUE), TrackedTag, ThisMachine) = None
            /\ mgr'.frame = mgr.frame
            /\ last_saved_fp' = last_saved_fp
            /\ tracker'._last_saved_fp
                  = IF tracker = None THEN None ELSE tracker._last_saved_fp]_vars

(***************************************************************************)
(* Claims about the frames that reach the file (checked under SpecFrames,  *)
(* which starts without a file).                                           *)
(***************************************************************************)
\* C27: every persisted frame has 4 elements: in every cache file state
\* reachable through track, the on-change handler and the handle's manual
\* operations, each entry's frame and screen_frame are 4-element
\* sequences, whatever the manager's get-frame and get-screen-bounds calls
\* return.
C27_PersistedFramesHaveFourElements ==
    LET entry == StoredEntry(disk, TrackedTag, ThisMachine)
    IN  entry # None =>
            /\ FourElements(dict_get(entry, "frame"))
            /\ FourElements(dict_get(entry, "screen_frame"))

(***************************************************************************)
(* Claims about loading the file (checked under SpecLoad).                 *)
(***************************************************************************)
\* C28: load is total and never partial: load(path) returns coerce(decoded
\* document) when the file can be read and decoded, and the empty cache in
\* every other case (missing file, unreadable file, undecodable text, wrong
\* version, wrong top-level shape); it never raises and never returns a
\* cache that mixes recovered and default parts: the result is the empty
\* cache, or its machines and its entries are both those of the document.
C28_LoadTotalNeverPartial ==
    call.op = "load" =>
        /\ cache # Raised
        /\ IF call.read_ok /\ disk.t = "text" /\ disk.json
           THEN cache = _coerce_cache(disk.doc)
           ELSE cache = _new_cache
        /\ \/ cache = _new_cache
           \/ /\ disk.doc.t = "dict"
              /\ dict_get(disk.doc, "version") = PyInt(_CACHE_VERSION)
              /\ cache.v["machines"] = dict_get(disk.doc, "machines")
              /\ cache.v["entries"] = dict_get(disk.doc, "entries")

\* a readable version-1 document with a machine record and entries that are
\* no mapping was loaded as the empty cache
C28_Witness ==
    /\ call.op = "load"
    /\ call.read_ok
    /\ disk.t = "text"
    /\ disk.json
    /\ disk.doc.t = "dict"
    /\ dict_get(disk.doc, "version") = PyInt(_CACHE_VERSION)
    /\ dict_get(disk.doc, "machines") = PyDict([m1 |-> HostRecord("hostA")])
    /\ dict_get(disk.doc, "entries") = PyList(<<>>)
    /\ cache = _new_cache

MachineRecords(c) == c.v["machines"].v

TagsAreNonEmptyStrings(c) ==
    \A k \in DOMAIN c.v["entries"].v : k \in STRING /\ k # ""

\* C31: set_entry with an empty or non-string tag, or with an entry that is
\* not a mapping, leaves the whole cache as it was (no entry and no machine
\* record added); hence in every cache reached from the empty one by
\* set_entry calls every key of entries is a non-empty string, and the same
\* holds of the file an upsert_entry leaves when it starts from such a cache.
C31_NoEntryUnderBadTag ==
    /\ (/\ call.op = "set_entry"
        /\ (call.tag \in BadTags \/ call.entry \in NonMappings))
          => cache = call.before
    /\ TagsAreNonEmptyStrings(cache)
    /\ \A args \in UpsertArgs, skip \in BOOLEAN :
          LET r == _upsert_entry(JsonText(to_json(cache)), args[1], args[2],
                                 args[3], skip, 0, CurrentHost, TRUE, TRUE)
          IN  /\ TagsAreNonEmptyStrings(_load_cache(r.file, TRUE))
              /\ args[1] \in BadTags => r.file = JsonText(to_json(cache))

\* set_entry was called with the empty tag and a good entry on a cache that
\* already holds an entry, and the cache is as it was
C31_Witness ==
    /\ call.op = "set_entry"
    /\ call.tag = PyStr("")
    /\ call.entry \in StoreEntries
    /\ DOMAIN call.before.v["entries"].v # {}
    /\ cache = call.before

(***************************************************************************)
(* Claims about machine records and entries (checked under SpecStore).     *)
(***************************************************************************)
\* the machine ids that have an entry under some tag of the cache
MachinesWithEntries(c) ==
    UNION {DOMAIN c.v["entries"].v[k].v :
              k \in {t \in DOMAIN c.v["entries"].v : c.v["entries"].v[t].t = "dict"}}

\* every machine id with an entry has a machine record
RecordsAccompanyEntries(c) ==
    MachinesWithEntries(c) \subseteq DOMAIN MachineRecords(c)

\* C32: in every cache reached from the empty one by set_entry calls, every
\* machine id that has an entry under some tag has a record in machines;
\* a set_entry that writes for a machine without a record creates the
\* record {hostname: the host name at that call}, and one that writes for a
\* machine with a record leaves the record as it is, so the record is the
\* one the first write created.  The same holds of the file an upsert_entry
\* leaves when it starts from such a cache.
C32_MachineRecordsAccompanyEntries ==
    /\ RecordsAccompanyEntries(cache)
    /\ (/\ call.op = "set_entry"
        /\ call.tag \in GoodTags
        /\ call.entry \in StoreEntries)
          => LET m == call.machine_id.v
             IN  /\ m \in DOMAIN MachineRecords(cache)
                 /\ MachineRecords(cache)[m] =
                        IF m \in DOMAIN MachineRecords(call.before)
                        THEN MachineRecords(call.before)[m]
                        ELSE HostRecord(call.hostname)
    /\ \A args \in GoodUpsertArgs :
          LET before == JsonText(to_json(cache))
              r == _upsert_entry(before, args[1], args[2], args[3], FALSE, 0,
                                 CurrentHost, TRUE, TRUE)
              after == _load_cache(r.file, TRUE)
              m == args[2].v
          IN  /\ RecordsAccompanyEntries(after)
              /\ MachineRecords(after)[m] =
                     IF m \in DOMAIN MachineRecords(cache)
                     THEN MachineRecords(cache)[m]
                     ELSE HostRecord(CurrentHost)

\* the second write for a machine, under another host name than the first:
\* the record still names the host of the first write
C32_Witness ==
    /\ call.op = "set_entry"
    /\ call.tag \in GoodTags
    /\ call.entry \in StoreEntries
    /\ call.hostname = "hostA"
    /\ call.machine_id.v \in MachinesWithEntries(call.before)
    /\ MachineRecords(cache)[call.machine_id.v] = HostRecord("hostB")

(***************************************************************************)
(* Claims about change detection (checked under SpecDetect).               *)
(***************************************************************************)
\* the two entries agree, by exact equality, on frame, screen_id and
\* screen_frame (a missing field counting as None)
SameGeometry(e1, e2) ==
    /\ dict_get(e1, "frame") = dict_get(e2, "frame")
    /\ dict_get(e1, "screen_id") = dict_get(e2, "screen_id")
    /\ dict_get(e1, "screen_frame") = dict_get(e2, "screen_frame")

\* C33: with valid arguments and a working filesystem, upsert_entry with
\* skip_if_unchanged=True writes if and only if no entry exists for
\* (tag, machine id) or the existing entry's (frame, screen_id,
\* screen_frame) differs from the new entry's by exact equality; when they
\* agree, whatever updated_at or other fields say, the file (its updated_at
\* included) stays as it was; with skip_if_unchanged=False every call writes.
C33_ChangeDetectionByFingerprint ==
    (call.op = "upsert" /\ call.ok /\ call.args \in DetectArgs)
      => LET old == StoredEntry(call.before, call.args[1], call.args[2])
             same == old # None /\ SameGeometry(old, call.args[3])
         IN  /\ call.written <=> (~call.skip \/ ~same)
             /\ (call.skip /\ same) => disk = call.before

\* an entry stored with updated_at was passed again without it, with
\* skip_if_unchanged=True: nothing was written
C33_Witness ==
    /\ call.op = "upsert" /\ call.ok /\ call.skip
    /\ call.args \in DetectArgs
    /\ "updated_at" \notin DOMAIN call.args[3].v
    /\ StoredEntry(call.before, call.args[1], call.args[2]) # None
    /\ "updated_at" \in DOMAIN StoredEntry(call.before, call.args[1], call.args[2]).v
    /\ ~call.written
    /\ disk = call.before

(***************************************************************************)
(* Claims about what a True upsert leaves in the file (checked under       *)
(* SpecFile).                                                              *)
(***************************************************************************)
\* C34: for every prior content of the cache file, a version-1 document
\* whose entries[tag] is present but is no mapping included, when
\* upsert_entry returns True with a working filesystem, a following load
\* and get_entry(tag, machine id) returns an entry with the fingerprint of
\* the entry that was passed in (a tuple read as the list JSON makes of it).
C34_TrueUpsertStoresEntry ==
    (call.op = "upsert" /\ call.ok /\ call.ret)
      => LET stored == StoredEntry(disk, call.args[1], call.args[2])
         IN  /\ stored # None
             /\ SameGeometry(stored, to_json(call.args[3]))

\* the file holds a document that coerce accepts as a version-1 cache
AcceptedCacheFile(file) ==
    /\ file.t = "text"
    /\ file.json
    /\ file.doc.t = "dict"
    /\ _coerce_cache(file.doc) # _new_cache

\* the (tag, machine id) pairs that have an entry in the cache
EntryPairs(c) ==
    UNION {{<<k, m>> : m \in DOMAIN c.v["entries"].v[k].v} :
              k \in {t \in DOMAIN c.v["entries"].v : c.v["entries"].v[t].t = "dict"}}

\* C35: when the cache file holds a valid version-1 cache, a successful
\* upsert_entry for (tag, machine id) on a working filesystem leaves every
\* entry under any other (tag, machine id) pair and every existing machine
\* record exactly as it was in the file before the call.
C35_UpsertTouchesOnlyItsEntry ==
    (call.op = "upsert" /\ call.ok /\ call.ret /\ AcceptedCacheFile(call.before))
      => LET b == _load_cache(call.before, TRUE)
             a == _load_cache(disk, TRUE)
         IN  /\ \A m \in DOMAIN MachineRecords(b) :
                    /\ m \in DOMAIN MachineRecords(a)
                    /\ MachineRecords(a)[m] = MachineRecords(b)[m]
             /\ \A p \in EntryPairs(b) \ {<<call.args[1].v, call.args[2].v>>} :
                    /\ p \in EntryPairs(a)
                    /\ a.v["entries"].v[p[1]].v[p[2]] = b.v["entries"].v[p[1]].v[p[2]]

\* an upsert for (winA, m1) succeeded on a file that held entries for
\* (winA, m2) and (winB, m1) and records for both machines
C35_Witness ==
    /\ call.op = "upsert" /\ call.ok /\ call.ret
    /\ AcceptedCacheFile(call.before)
    /\ call.args[1] = TagA /\ call.args[2] = M1
    /\ {<<"winA", "m2">>, <<"winB", "m1">>}
          \subseteq EntryPairs(_load_cache(call.before, TRUE))
    /\ {"m1", "m2"} \subseteq DOMAIN MachineRecords(_load_cache(call.before, TRUE))
    /\ <<"winA", "m1">> \in EntryPairs(_load_cache(disk, TRUE))

(***************************************************************************)
(* Claims about subscriptions of a failed registration (checked under      *)
(* Spec).                                                                  *)
(***************************************************************************)
\* C36: whenever track returns an absent handle, the case where the second
\* subscribe call fails after the first succeeded included, no subscription
\* made by that call remains active on the manager.
C36_NoSubscriptionWithoutHandle ==
    (call.op = "track" /\ tracking = "absent")
      => mgr.callbacks = call.before.callbacks

(***************************************************************************)
(* Claims about the shape of written files (checked under SpecFile).       *)
(***************************************************************************)
\* C37: every cache file this subsystem writes decodes to a mapping with
\* exactly the keys version, machines and entries, with version 1 and
\* machines and entries mappings, so that load returns its full content and
\* coerce of it is the identity; a call that writes nothing leaves the file
\* as it was.
C37_WrittenFilesAreValidCaches ==
    /\ (call.op = "upsert" /\ call.written)
          => /\ ValidCacheFile(disk)
             /\ _load_cache(disk, TRUE) = disk.doc
             /\ _coerce_cache(disk.doc) = disk.doc
    /\ (call.op = "upsert" /\ ~call.written) => disk = call.before

\* a file that held a version-1 document with an unknown key, or no
\* decodable document at all, was rewritten
C37_Witness ==
    /\ call.op = "upsert" /\ call.written
    /\ ~ValidCacheFile(call.before)
    /\ call.before # AbsentFile
    /\ ValidCacheFile(disk)

====
